---- MODULE Spec2Model ----
(***************************************************************************)
(* A model of the astrbot_plugin_llm_draw_plus plugin:                     *)
(*   main.py  MyPlugin: permission gate, token round-robin, command and    *)
(*            tool handlers, _generate_core                                *)
(*   ttp.py   call_flow2api (response parser), generate_image,             *)
(*            generate_video, generate_image_gemini                        *)
(*                                                                         *)
(* Python strings are sequences of tokens, cut so that every prefix the    *)
(* code tests (str.startswith) is a whole number of tokens.  None is a     *)
(* value of its own, different from the empty string.                      *)
(***************************************************************************)
EXTENDS Integers, Sequences, FiniteSets, TLC

VARIABLES
    self,            \* the MyPlugin object: configuration and the two cursors
    downloaded_image,\* content of the file 'downloaded_image.jpeg'
    req,             \* the invocations in flight, one record per request slot
    started,         \* number of invocations started so far
    taken,           \* per provider, the tokens _get_next_api returned, in order
    used,            \* per provider, the tokens of the calls dispatched, in order
    perm_event,      \* argument of the last _check_permission call
    perm_result,     \* its return value
    response,        \* stdout / exit status of the curl subprocess
    parsed,          \* what call_flow2api returned for it
    parses,          \* the calls of call_flow2api made so far: response and result
    left_over,       \* the text call_flow2api had accumulated when it last returned
    core_args,       \* the arguments of a call of _generate_core
    core_result,     \* what that call normalized them to and put in the request
    call_args,       \* the function called on its own, and its arguments
    call_result      \* what that call has come to

\* the variables of the repeated parses and of the parameter normalizer
reparse_vars == <<parses, left_over>>
normalizer_vars == <<core_args, core_result>>
call_vars == <<call_args, call_result>>

vars == <<self, downloaded_image, req, started, taken, used, perm_event, perm_result,
          response, parsed, reparse_vars, normalizer_vars, call_vars>>

----------------------------------------------------------------------------
(* Python values *)

None == <<"<None>">>

\* bool(x) of a str or None
Truthy(x) == x # None /\ x # <<>>

\* s.startswith(p)
StartsWith(s, p) == Len(s) >= Len(p) /\ SubSeq(s, 1, Len(p)) = p

\* the elements of a list
Range(seq) == {seq[i] : i \in DOMAIN seq}

\* Identifiers as the chat framework and the configuration file hold them: an
\* int, a str, or None.  s is the decimal text, so str(x) is x.s for both.
IntId(s) == [t |-> "int", s |-> s]
StrId(s) == [t |-> "str", s |-> s]
NoneId == [t |-> "none", s |-> "None"]

\* str(x)
str(x) == x.s

\* bool(x) of an identifier
TruthyId(x) == x.t # "none" /\ x.s # "" /\ ~(x.t = "int" /\ x.s = "0")

----------------------------------------------------------------------------
(* main.py: the permission gate *)

\* a plausible slip: the ids compared as they are, without str()
_check_permission_raw(plugin, event) ==
    IF plugin.group_white_list = <<>> /\ plugin.user_white_list = <<>> THEN TRUE
    ELSE IF plugin.user_white_list # <<>>
            /\ event.user_id \in Range(plugin.user_white_list) THEN TRUE
    ELSE IF TruthyId(event.group_id) /\ plugin.group_white_list # <<>>
            /\ event.group_id \in Range(plugin.group_white_list) THEN TRUE
    ELSE FALSE

\* MyPlugin._check_permission
_check_permission(plugin, event) ==
    IF plugin.group_white_list = <<>> /\ plugin.user_white_list = <<>> THEN TRUE
    ELSE IF plugin.user_white_list # <<>>
            /\ str(event.user_id) \in {str(uid) : uid \in Range(plugin.user_white_list)}
         THEN TRUE
    ELSE IF TruthyId(event.group_id) /\ plugin.group_white_list # <<>>
            /\ str(event.group_id) \in {str(gid) : gid \in Range(plugin.group_white_list)}
         THEN TRUE
    ELSE FALSE

----------------------------------------------------------------------------
(* main.py: the token round-robin *)

\* a plausible slip: the cursor is advanced before it is read
_get_next_api_skip(plugin, api_type) ==
    IF api_type = "openai" THEN
        IF plugin.openai_api_tokens = <<>>
        THEN [url |-> plugin.openai_api_url, token |-> None, plugin |-> plugin]
        ELSE [url |-> plugin.openai_api_url,
              token |-> plugin.openai_api_tokens[
                           ((plugin.openai_idx + 1) % Len(plugin.openai_api_tokens)) + 1],
              plugin |-> [plugin EXCEPT !.openai_idx = @ + 1]]
    ELSE IF api_type = "flow" THEN
        IF plugin.flow_api_tokens = <<>>
        THEN [url |-> plugin.flow_api_url, token |-> None, plugin |-> plugin]
        ELSE [url |-> plugin.flow_api_url,
              token |-> plugin.flow_api_tokens[
                           ((plugin.flow_idx + 1) % Len(plugin.flow_api_tokens)) + 1],
              plugin |-> [plugin EXCEPT !.flow_idx = @ + 1]]
    ELSE [url |-> None, token |-> None, plugin |-> plugin]

\* a plausible slip: the cursor is read but the increment is lost, as when
\* two calls read it before either writes it back
_get_next_api_lost_update(plugin, api_type) ==
    IF api_type = "openai" THEN
        IF plugin.openai_api_tokens = <<>>
        THEN [url |-> plugin.openai_api_url, token |-> None, plugin |-> plugin]
        ELSE [url |-> plugin.openai_api_url,
              token |-> plugin.openai_api_tokens[
                           (plugin.openai_idx % Len(plugin.openai_api_tokens)) + 1],
              plugin |-> [plugin EXCEPT !.openai_idx = IF @ = 1 THEN 1 ELSE @ + 1]]
    ELSE IF api_type = "flow" THEN
        IF plugin.flow_api_tokens = <<>>
        THEN [url |-> plugin.flow_api_url, token |-> None, plugin |-> plugin]
        ELSE [url |-> plugin.flow_api_url,
              token |-> plugin.flow_api_tokens[
                           (plugin.flow_idx % Len(plugin.flow_api_tokens)) + 1],
              plugin |-> [plugin EXCEPT !.flow_idx = IF @ = 1 THEN 1 ELSE @ + 1]]
    ELSE [url |-> None, token |-> None, plugin |-> plugin]

\* MyPlugin._get_next_api: the (url, token) it returns and the plugin object
\* it leaves behind.  Python lists are 0-based, TLA+ sequences 1-based.
_get_next_api(plugin, api_type) ==
    IF api_type = "openai" THEN
        IF plugin.openai_api_tokens = <<>>
        THEN [url |-> plugin.openai_api_url, token |-> None, plugin |-> plugin]
        ELSE [url |-> plugin.openai_api_url,
              token |-> plugin.openai_api_tokens[
                           (plugin.openai_idx % Len(plugin.openai_api_tokens)) + 1],
              plugin |-> [plugin EXCEPT !.openai_idx = @ + 1]]
    ELSE IF api_type = "flow" THEN
        IF plugin.flow_api_tokens = <<>>
        THEN [url |-> plugin.flow_api_url, token |-> None, plugin |-> plugin]
        ELSE [url |-> plugin.flow_api_url,
              token |-> plugin.flow_api_tokens[
                           (plugin.flow_idx % Len(plugin.flow_api_tokens)) + 1],
              plugin |-> [plugin EXCEPT !.flow_idx = @ + 1]]
    ELSE [url |-> None, token |-> None, plugin |-> plugin]

----------------------------------------------------------------------------
(* ttp.py: call_flow2api, the response parser *)

\* The text of a message is a sequence of tokens.  The tokens the three
\* regular expressions of lines 198-206 tell apart:
MdOpen == "![x]("                 \* ![alt]( of a Markdown image link
CloseParen == ")"
VideoOpen == "<video src='"       \* <video ... src=' of an HTML video tag
Quote == "'"
Http == "http"
Newline == "\n"
Space == " "
\* what may follow "http" in a URL: "://" and at least one character that is
\* not white space, a quote, ')', '<' or '>'
UrlBodies == {"://img/1.png", "://img/2.png", "://vid/1.mp4", "://txt/x",
              "://media/A", "://media/B"}
\* tokens that hold a character the bare-URL expression stops at
UrlStops == {CloseParen, Quote, Newline, Space, VideoOpen, "a cat"}

\* the smallest element of a set of positions, 0 for the empty set
First(hits) == IF hits = {} THEN 0 ELSE CHOOSE i \in hits : \A j \in hits : i <= j

\* "https?://" and one more character start at token i
UrlAt(t, i) == i + 1 <= Len(t) /\ t[i] = Http /\ t[i + 1] \in UrlBodies

\* re.search(r'!\[.*?\]\((https?://.*?)\)', t): group 1, or None.
\* '.' does not match a newline.
md_closes(t, j) ==
    {k \in j + 3..Len(t) : t[k] = CloseParen /\ \A m \in j..k : t[m] # Newline}
md_match(t) ==
    LET j == First({i \in 1..Len(t) :
                      t[i] = MdOpen /\ UrlAt(t, i + 1) /\ md_closes(t, i) # {}})
    IN IF j = 0 THEN None ELSE SubSeq(t, j + 1, First(md_closes(t, j)) - 1)

\* re.search(r"<video[^>]+src=['\"](https?://[^'\"]+)['\"]", t): group 1, or None
video_quotes(t, j) == {k \in j + 3..Len(t) : t[k] = Quote}
video_match(t) ==
    LET j == First({i \in 1..Len(t) :
                      t[i] = VideoOpen /\ UrlAt(t, i + 1) /\ video_quotes(t, i) # {}})
    IN IF j = 0 THEN None ELSE SubSeq(t, j + 1, First(video_quotes(t, j)) - 1)

\* re.search(r'(https?://[^\s)"\'<>]+)', t): group 1, or None
url_match(t) ==
    LET j == First({i \in 1..Len(t) : UrlAt(t, i)})
        stops == {k \in j + 2..Len(t) : t[k] \in UrlStops}
    IN IF j = 0 THEN None
       ELSE SubSeq(t, j, IF stops = {} THEN Len(t) ELSE First(stops) - 1)

\* a plausible slip: the match that starts first in the text wins
extract_url_by_position(full_content) ==
    LET t == full_content
        md == First({i \in 1..Len(t) :
                       t[i] = MdOpen /\ UrlAt(t, i + 1) /\ md_closes(t, i) # {}})
        video == First({i \in 1..Len(t) :
                          t[i] = VideoOpen /\ UrlAt(t, i + 1) /\ video_quotes(t, i) # {}})
        url == First({i \in 1..Len(t) : UrlAt(t, i)})
        starts == {md, video, url} \ {0}
    IN IF starts = {} THEN None
       ELSE IF First(starts) = md THEN md_match(t)
       ELSE IF First(starts) = video THEN video_match(t)
       ELSE url_match(t)

\* lines 197-208: the URL taken from the accumulated text, or None
extract_url(full_content) ==
    IF md_match(full_content) # None THEN md_match(full_content)
    ELSE IF video_match(full_content) # None THEN video_match(full_content)
    ELSE url_match(full_content)

\* The body curl printed is either one JSON object,
\*   [fmt |-> "json", keys, error, choices, data]
\* with keys the top-level keys present, choices a list of
\* [message |-> [content, images]] and data a list of [url], or lines of text,
\*   [fmt |-> "text", lines]
\* each line [type, delta]: type "data" for 'data: ' followed by a JSON chunk
\* whose choices[0].delta is delta = [content, images, reasoning], "done"
\* for 'data: [DONE]', "badjson" for 'data: ' followed by what is not JSON,
\* "misshapen" for 'data: ' followed by JSON of another shape (a number,
\* null, a delta that is no object), "blank" for white space only, "other"
\* for any other line.  A body that decodes to JSON of another shape than the
\* object described is [fmt |-> "misshapen"].  The empty body has no lines.
\* An entry of images is [url |-> its image_url.url or None].

\* line 192: a cross mark, "Error", or the word for "failed"
FailureMarkers == {"<cross mark>", "Error", "<failed>"}

\* a plausible slip: images[0] instead of images[-1]
first_image_url(images) ==
    IF images # <<>> /\ Truthy(images[1].url)
    THEN images[1].url
    ELSE None

\* lines 153-156 and 184-187: the URL of the LAST entry of images, if it has one
last_image_url(images) ==
    IF images # <<>> /\ Truthy(images[Len(images)].url)
    THEN images[Len(images)].url
    ELSE None

\* a plausible slip: the accumulator is not cleared at the start of a call
full_content_kept(previous) == previous

\* line 132: full_content = "", whatever text the previous call accumulated
full_content_init(previous) == <<>>

\* the mark of an exception raised inside the try block of line 62
Raised == <<"<exception>">>

\* a plausible slip: no except clause around the parsing
untrapped(ret) == ret

\* lines 222-224: the except clause turns any exception into a string
trapped(ret) == IF ret = Raised THEN <<"Exception: ", "<e>">> ELSE ret

\* a plausible slip: full_content = content inside the loop
replace_content(full_content, content) ==
    IF Truthy(content) THEN content ELSE full_content

\* lines 178-179: if content: full_content += content
add_content(full_content, content) ==
    IF Truthy(content) THEN full_content \o content ELSE full_content

\* lines 135-165, entered with the text full_content: [ret |-> the value
\* returned from inside the try block, None when it falls through, Raised when
\* an exception other than JSONDecodeError leaves it; full_content |-> the text
\* then]
parse_json(body, full_content) ==
    IF body.fmt = "misshapen" THEN [ret |-> Raised, full_content |-> full_content]
    ELSE IF body.fmt # "json" THEN [ret |-> None, full_content |-> full_content]
    ELSE IF "error" \in body.keys
    THEN [ret |-> <<"Error from API: ">> \o body.error, full_content |-> full_content]
    ELSE IF "choices" \in body.keys /\ Len(body.choices) > 0 THEN
        LET message == body.choices[1].message
            with_content == IF Truthy(message.content) THEN message.content
                            ELSE full_content
        IN [ret |-> last_image_url(message.images), full_content |-> with_content]
    ELSE IF "data" \in body.keys /\ Len(body.data) > 0 THEN
        [ret |-> IF Truthy(body.data[1].url) THEN body.data[1].url ELSE None,
         full_content |-> full_content]
    ELSE [ret |-> None, full_content |-> full_content]

\* a plausible slip: the loop remembers the image of a chunk and goes on, so
\* that a later chunk's image replaces it
RECURSIVE parse_sse_to_end(_, _, _)
parse_sse_to_end(lines, i, full_content) ==
    IF i > Len(lines) THEN [ret |-> None, full_content |-> full_content]
    ELSE IF lines[i].type = "misshapen" THEN [ret |-> Raised, full_content |-> full_content]
    ELSE IF lines[i].type # "data" THEN parse_sse_to_end(lines, i + 1, full_content)
    ELSE
        LET delta == lines[i].delta
            with_content == add_content(full_content, delta.content)
            rest == parse_sse_to_end(lines, i + 1, with_content)
        IN IF rest.ret = None /\ last_image_url(delta.images) # None
           THEN [ret |-> last_image_url(delta.images), full_content |-> with_content]
           ELSE rest

\* lines 169-195: the loop over the lines from line i on, with the text
\* collected so far; returns as parse_json does
RECURSIVE parse_sse(_, _, _)
parse_sse(lines, i, full_content) ==
    IF i > Len(lines) THEN [ret |-> None, full_content |-> full_content]
    ELSE IF lines[i].type = "misshapen" THEN [ret |-> Raised, full_content |-> full_content]
    ELSE IF lines[i].type # "data" THEN parse_sse(lines, i + 1, full_content)
    ELSE
        LET delta == lines[i].delta
            with_content == add_content(full_content, delta.content)
            with_reasoning ==
                IF Truthy(delta.reasoning)
                   /\ \E k \in DOMAIN delta.reasoning : delta.reasoning[k] \in FailureMarkers
                THEN with_content \o <<Newline, "[Reasoning Error]: ">> \o delta.reasoning
                ELSE with_content
        IN IF last_image_url(delta.images) # None
           THEN [ret |-> last_image_url(delta.images), full_content |-> with_content]
           ELSE parse_sse(lines, i + 1, with_reasoning)

\* line 107: stdout.decode().strip() is the empty string
blank(body) == body.fmt = "text" /\ \A i \in DOMAIN body.lines : body.lines[i].type = "blank"

\* lines 132-195: the two parsing stages, entered with the text start:
\* [ret, full_content] as parse_json
parse_stages(body, start) ==
    LET j == parse_json(body, start)
    IN IF j.ret # None THEN j
       ELSE IF j.full_content = <<>> /\ body.fmt = "text"
       THEN parse_sse(body.lines, 1, j.full_content)
       ELSE j

\* a plausible slip: the text is searched for a URL before the image found
\* by the two stages is returned
parse_finish_text_first(body, s) ==
    IF s.ret = Raised THEN Raised
    ELSE IF extract_url(s.full_content) # None THEN extract_url(s.full_content)
    ELSE IF s.ret # None THEN s.ret
    ELSE IF s.full_content # <<>>
    THEN <<"No URL found in response. Model Output: ">> \o s.full_content
    ELSE <<"API Error: ", "<response_text>">>

\* lines 197-220: what is returned after the two stages ended in s
parse_finish(body, s) ==
    IF s.ret # None THEN s.ret
    ELSE IF extract_url(s.full_content) # None THEN extract_url(s.full_content)
    ELSE IF s.full_content # <<>>
    THEN <<"No URL found in response. Model Output: ">> \o s.full_content
    ELSE IF ~blank(body) THEN <<"API Error: ", "<response_text>">>
    ELSE <<"Empty response from Flow2API">>

\* lines 132-220: what call_flow2api makes of the body
parse_response(body) ==
    parse_finish(body, parse_stages(body, full_content_init(<<>>)))

\* call_flow2api, from what the curl subprocess did:
\*   [curl |-> "exception"]  mkstemp, json.dump or the subprocess raised
\*   [curl |-> "failed"]     curl's exit code was not 0
\*   [curl |-> "ok", body]   curl printed body
call_flow2api(resp) ==
    IF resp.curl = "exception" THEN trapped(Raised)
    ELSE IF resp.curl = "failed" THEN <<"Error:", " Curl failed - ", "<stderr>">>
    ELSE trapped(parse_response(resp.body))

\* a call of call_flow2api made after a call that had accumulated the text
\* previous: [ret |-> what it returns, full_content |-> what it accumulates]
call_flow2api_after(resp, previous) ==
    IF resp.curl # "ok" THEN [ret |-> call_flow2api(resp), full_content |-> <<>>]
    ELSE LET s == parse_stages(resp.body, full_content_init(previous))
         IN [ret |-> trapped(parse_finish(resp.body, s)), full_content |-> s.full_content]

----------------------------------------------------------------------------
(* ttp.py: generate_image_gemini, the official endpoint *)

\* The media a provider can produce: one per request slot, so that it can be
\* told whose image a reply carries.
Media == {"A", "B"}

ImagePath == <<"downloaded_image.jpeg">>

\* base64.b64decode(payload) returns the bytes (here: which media they are)
\* when the payload is well padded, and raises otherwise
b64valid(payload) == payload \in Media

\* What the HTTP exchange with the Gemini endpoint did:
\*   [post |-> "raises"]                        session.post raised (network, timeout)
\*   [post |-> "ok", status, json, parts]       a response with that status; json
\*       tells whether response.json() decodes it; parts are
\*       candidates[0].content.parts, each [kind, data]: kind "text", "image"
\*       (inline_data with base64 data) or "malformed" (not a JSON object)
NoWrite == "<nothing written>"

\* lines 619-642: the loop over the parts from part i on:
\*   [found, url, path, wrote |-> the bytes written to downloaded_image.jpeg];
\*   found is FALSE when the loop ends without a return
RECURSIVE gemini_parts(_, _)
gemini_parts(parts, i) ==
    IF i > Len(parts)
    THEN [found |-> FALSE, url |-> None, path |-> None, wrote |-> NoWrite]
    ELSE IF parts[i].kind = "malformed"
            \/ (parts[i].kind = "image" /\ ~b64valid(parts[i].data))
    THEN [found |-> TRUE, url |-> None, wrote |-> NoWrite,
          path |-> <<"Error parsing Gemini response: ", "<e>">>]
    ELSE IF parts[i].kind = "image"
    THEN [found |-> TRUE, url |-> None, path |-> ImagePath, wrote |-> parts[i].data]
    ELSE gemini_parts(parts, i + 1)

\* generate_image_gemini: [raised, url, path, wrote]
generate_image_gemini(api_key, g) ==
    IF ~Truthy(api_key)
    THEN [raised |-> FALSE, url |-> None, wrote |-> NoWrite,
          path |-> <<"Error:", " Google API Key is missing. Please configure it in the plugin settings.">>]
    ELSE IF g.post = "raises"
    THEN [raised |-> TRUE, url |-> None, path |-> None, wrote |-> NoWrite]
    ELSE IF g.status # 200
    THEN [raised |-> FALSE, url |-> None, wrote |-> NoWrite,
          path |-> <<"Error:", " Gemini API request failed">>]
    ELSE IF ~g.json
    THEN [raised |-> TRUE, url |-> None, path |-> None, wrote |-> NoWrite]
    ELSE IF gemini_parts(g.parts, 1).found
    THEN [raised |-> FALSE, url |-> gemini_parts(g.parts, 1).url,
          path |-> gemini_parts(g.parts, 1).path,
          wrote |-> gemini_parts(g.parts, 1).wrote]
    ELSE [raised |-> FALSE, url |-> None, wrote |-> NoWrite,
          path |-> <<"Error:", " No image data found.">>]

----------------------------------------------------------------------------
(* ttp.py: generate_image, the provider dispatcher *)

\* One call of generate_image is a record f: its arguments provider,
\* flow_api_url, flow_api_token, google_api_key; its local flow_error; pc, the
\* await it is suspended at; and what it has done: calls (the endpoints
\* requested, in order), downloads (media downloads started), wrote (the
\* bytes it put in downloaded_image.jpeg), ret (the tuple it returned).

\* the URL under which a provider serves media m, and the bytes a GET of a
\* URL returns
MediaUrl(m) == <<Http, IF m = "A" THEN "://media/A" ELSE "://media/B">>
MediaAt(url) == IF url = MediaUrl("A") THEN "A"
                ELSE IF url = MediaUrl("B") THEN "B" ELSE "<bytes>"

\* a plausible slip: Flow2API only on explicit request, never as the default
use_flow_explicit_only(f) == f.provider = "flow"

\* lines 230-242
use_openai(f) == f.provider = "openai"
use_flow(f) ==
    IF f.provider = "flow" THEN TRUE
    ELSE IF f.provider = "openai" THEN FALSE
    ELSE IF f.provider = "official" THEN FALSE
    ELSE Truthy(f.flow_api_url)

gi_return(f, url, path, source) ==
    [f EXCEPT !.pc = "returned", !.ret = [url |-> url, path |-> path, source |-> source]]

\* a plausible slip: the Gemini endpoint is called without looking at the key
gi_official_unchecked(f) ==
    [f EXCEPT !.pc = "gemini_call", !.calls = Append(@, "gemini")]

\* lines 477-484: the official branch up to the request to the Gemini endpoint
gi_official(f) ==
    IF ~Truthy(f.google_api_key) THEN
        IF Truthy(f.flow_error)
        THEN gi_return(f, None, <<"Error:", " Flow2API failed (">> \o f.flow_error
                                 \o <<") and Google API Key is missing.">>, None)
        ELSE gi_return(f, None, <<"Error:", " Google API Key is missing.">>, None)
    ELSE [f EXCEPT !.pc = "gemini_call", !.calls = Append(@, "gemini")]

\* lines 366-411: the Flow2API branch up to the curl subprocess
gi_flow(f) ==
    IF use_flow(f) /\ Truthy(f.flow_api_url) /\ ~use_openai(f)
    THEN [f EXCEPT !.pc = "flow_call", !.calls = Append(@, "flow")]
    ELSE gi_official(f)

\* lines 226-297: from the call to the first await
gi_enter(f) ==
    IF use_openai(f) /\ Truthy(f.flow_api_url)
    THEN [f EXCEPT !.pc = "openai_call", !.calls = Append(@, "openai")]
    ELSE gi_flow(f)

\* lines 363-364: the OpenAI-compatible attempt has failed with flow_error e
gi_openai_failed(f, e) ==
    IF f.provider = "openai"
    THEN gi_return([f EXCEPT !.flow_error = e], None,
                   <<"Error:", " OpenAI API failed (">> \o e \o <<")">>, None)
    ELSE gi_flow([f EXCEPT !.flow_error = e])

\* a plausible slip: the error message of a failed attempt is dropped
gi_flow_failed_silent(f, e) ==
    IF f.provider = "flow"
    THEN gi_return([f EXCEPT !.flow_error = e], None, None, None)
    ELSE gi_official([f EXCEPT !.flow_error = e])

\* a plausible slip: a failed Flow2API attempt is tried once more
gi_flow_failed_retry(f, e) ==
    IF Len(f.calls) < 2
    THEN [f EXCEPT !.flow_error = e, !.pc = "flow_call", !.calls = Append(@, "flow")]
    ELSE IF f.provider = "flow"
    THEN gi_return([f EXCEPT !.flow_error = e], None,
                   <<"Error:", " Flow2API failed (">> \o e \o <<")">>, None)
    ELSE gi_official([f EXCEPT !.flow_error = e])

\* lines 471-475: the Flow2API attempt has failed with flow_error e
gi_flow_failed(f, e) ==
    IF f.provider = "flow"
    THEN gi_return([f EXCEPT !.flow_error = e], None,
                   <<"Error:", " Flow2API failed (">> \o e \o <<")">>, None)
    ELSE gi_official([f EXCEPT !.flow_error = e])

\* lines 333-334 and 444-445: result.split(',', 1) and b64decode: the bytes,
\* or NoWrite when either raises
decode_data_uri(result) ==
    LET commas == {i \in DOMAIN result : result[i] = ","}
    IN IF commas = {} THEN NoWrite
       ELSE LET c == CHOOSE i \in commas : \A j \in commas : i <= j
            IN IF Len(result) = c + 1 /\ b64valid(result[c + 1])
               THEN result[c + 1] ELSE NoWrite

\* a plausible slip: whatever does not start with "Error" is taken for a URL
gi_result_unless_error(f, result) ==
    LET openai == f.pc = "openai_call"
        name == IF openai THEN "OpenAI API" ELSE "Flow2API"
        failed(e) == IF openai THEN gi_openai_failed(f, e) ELSE gi_flow_failed(f, e)
    IN IF ~Truthy(result) THEN failed(<<name, " error: Empty result">>)
       ELSE IF StartsWith(result, <<"Error:">>) \/ StartsWith(result, <<"Error from API: ">>)
       THEN failed(<<name, " error: ">> \o result)
       ELSE [f EXCEPT !.pc = IF openai THEN "openai_download" ELSE "flow_download",
                      !.image_url = result, !.downloads = @ + 1]

\* lines 297-361 and 411-469: call_flow2api has returned result to the
\* branch named by f.pc ("openai_call" or "flow_call")
gi_result(f, result) ==
    LET openai == f.pc = "openai_call"
        name == IF openai THEN "OpenAI API" ELSE "Flow2API"
        failed(e) == IF openai THEN gi_openai_failed(f, e) ELSE gi_flow_failed(f, e)
    IN IF ~Truthy(result) THEN failed(<<name, " error: Empty result">>)
       ELSE IF StartsWith(result, <<"http">>)
       THEN [f EXCEPT !.pc = IF openai THEN "openai_download" ELSE "flow_download",
                      !.image_url = result, !.downloads = @ + 1]
       ELSE IF StartsWith(result, <<"data:", "image">>) THEN
            IF decode_data_uri(result) = NoWrite
            THEN failed(<<"Failed to decode base64 image: ", "<e>">>)
            ELSE gi_return([f EXCEPT !.wrote = decode_data_uri(result)],
                           None, ImagePath, <<name>>)
       ELSE failed(<<name, " error: ">> \o result)

\* a plausible slip: a failed download is started once more
gi_downloaded_retry(f, status) ==
    LET openai == f.pc = "openai_download"
        name == IF openai THEN "OpenAI API" ELSE "Flow2API"
        failed(e) == IF openai THEN gi_openai_failed(f, e) ELSE gi_flow_failed(f, e)
    IN IF status = "200"
       THEN gi_return([f EXCEPT !.wrote = MediaAt(f.image_url)],
                      f.image_url, ImagePath, <<name>>)
       ELSE IF f.downloads < 2
       THEN [f EXCEPT !.downloads = @ + 1]
       ELSE failed(<<name, " download exception: ", "<e>">>)

\* lines 303-328 and 417-440: the GET of image_url has ended; status is the
\* HTTP status, or "exception"
gi_downloaded(f, status) ==
    LET openai == f.pc = "openai_download"
        name == IF openai THEN "OpenAI API" ELSE "Flow2API"
        failed(e) == IF openai THEN gi_openai_failed(f, e) ELSE gi_flow_failed(f, e)
    IN IF status = "200"
       THEN gi_return([f EXCEPT !.wrote = MediaAt(f.image_url)],
                      f.image_url, ImagePath, <<name>>)
       ELSE IF status = "exception"
       THEN failed(<<name, " download exception: ", "<e>">>)
       ELSE failed(<<name, " generated URL but download failed: ", status>>)

\* lines 484-490: generate_image_gemini has ended with out
gi_gemini(f, out) ==
    IF out.raised THEN [f EXCEPT !.pc = "raised"]
    ELSE IF Truthy(out.url) \/ (Truthy(out.path) /\ ~StartsWith(out.path, <<"Error:">>))
    THEN gi_return([f EXCEPT !.wrote = out.wrote], out.url, out.path, <<"Google Gemini">>)
    ELSE gi_return([f EXCEPT !.wrote = out.wrote], out.url, out.path, None)

----------------------------------------------------------------------------
(* main.py: the command and tool handlers *)

\* The request slots: invocations that may be in flight at the same time.
Reqs == Media

ImageCommands == {"cmd_gen_image_openai_pro", "cmd_gen_image_nano", "cmd_gen_image_nanopro",
                  "cmd_gen_image_flow", "cmd_gen_image_flow_pro"}
ImageTools == {"pic_gen", "nano_gen", "flow_gen"}
VideoEntries == {"cmd_gen_video", "veo_gen"}
Entries == ImageCommands \cup ImageTools \cup VideoEntries

\* the provider each image handler passes to _generate_core
provider_of(entry) ==
    IF entry \in {"cmd_gen_image_openai_pro", "pic_gen"} THEN "openai"
    ELSE IF entry \in {"cmd_gen_image_nano", "cmd_gen_image_nanopro", "nano_gen"} THEN "official"
    ELSE "flow"

NoChain == [kind |-> "none", ref |-> None]
NoRet == [url |-> None, path |-> None, source |-> None]
NoEvent == [user_id |-> NoneId, group_id |-> NoneId]

\* a slot with no invocation in it
IdleReq ==
    [pc |-> "idle", entry |-> "none", event |-> NoEvent,
     extracted |-> FALSE, advanced |-> FALSE,
     provider |-> "<None>", flow_api_url |-> None, flow_api_token |-> None,
     google_api_key |-> None, flow_error |-> None,
     calls |-> <<>>, downloads |-> 0, image_url |-> None, wrote |-> NoWrite,
     ret |-> NoRet, success |-> FALSE, chain |-> NoChain, delivered |-> "<nothing>"]

\* the locals of generate_image are gone once _generate_core has its result
Forgotten(f) ==
    [f EXCEPT !.flow_api_url = None, !.flow_api_token = None, !.google_api_key = None,
              !.flow_error = None, !.image_url = None, !.ret = NoRet]

\* a plausible slip: any path counts as a file, also one that is an error message
_generate_core_finish_lax(f) ==
    IF ~Truthy(f.ret.url) /\ ~Truthy(f.ret.path) THEN Forgotten([f EXCEPT !.pc = "done"])
    ELSE IF Truthy(f.ret.url)
    THEN Forgotten([f EXCEPT !.pc = "send", !.success = TRUE,
                             !.chain = [kind |-> "url", ref |-> f.ret.url]])
    ELSE Forgotten([f EXCEPT !.pc = "send", !.success = TRUE,
                             !.chain = [kind |-> "file", ref |-> f.ret.path]])

\* lines 203-216: _generate_core after generate_image has returned f.ret
_generate_core_finish(f) ==
    IF ~Truthy(f.ret.url) /\ ~Truthy(f.ret.path) THEN Forgotten([f EXCEPT !.pc = "done"])
    ELSE IF Truthy(f.ret.path) /\ StartsWith(f.ret.path, <<"Error:">>)
    THEN Forgotten([f EXCEPT !.pc = "done"])
    ELSE IF Truthy(f.ret.url)
    THEN Forgotten([f EXCEPT !.pc = "send", !.success = TRUE,
                             !.chain = [kind |-> "url", ref |-> f.ret.url]])
    ELSE Forgotten([f EXCEPT !.pc = "send", !.success = TRUE,
                             !.chain = [kind |-> "file", ref |-> f.ret.path]])

\* generate_image runs inside _generate_core, which goes on without an await
\* when it returns; a direct call of generate_image ends with its return
resume(f) ==
    IF f.pc = "returned" /\ f.entry \in Entries THEN _generate_core_finish(f) ELSE f

\* lines 176-201: _generate_core from the cursor to the first await of
\* generate_image: [f, plugin, token, dispatched], dispatched telling whether
\* generate_image was called
_generate_core(plugin, f) ==
    LET provider == provider_of(f.entry)
        api == _get_next_api(plugin, provider)
        g == [f EXCEPT !.provider = provider,
                       !.google_api_key = plugin.google_api_key,
                       !.flow_api_url = api.url, !.flow_api_token = api.token,
                       !.advanced = api.plugin # plugin]
    IN IF provider \in {"openai", "flow"} /\ ~Truthy(api.url)
       THEN [f |-> Forgotten([g EXCEPT !.pc = "done"]), plugin |-> api.plugin,
             token |-> api.token, dispatched |-> FALSE]
       ELSE [f |-> resume(gi_enter(g)), plugin |-> api.plugin,
             token |-> api.token, dispatched |-> TRUE]

\* lines 339-346 and 458-466: a video handler up to its first await:
\* the gate, then the cursor, then the URL check
video_start(plugin, f) ==
    IF ~_check_permission(plugin, f.event)
    THEN [f |-> [f EXCEPT !.pc = "done"], plugin |-> plugin]
    ELSE LET api == _get_next_api(plugin, "flow")
             g == [f EXCEPT !.provider = "flow", !.flow_api_url = api.url,
                            !.flow_api_token = api.token,
                            !.advanced = api.plugin # plugin]
         IN IF ~Truthy(api.url)
            THEN [f |-> [g EXCEPT !.pc = "done"], plugin |-> api.plugin]
            ELSE [f |-> [g EXCEPT !.pc = "extract"], plugin |-> api.plugin]

\* lines 220-225: _handle_gen_image up to its first await
_handle_gen_image(plugin, f) ==
    IF ~_check_permission(plugin, f.event)
    THEN [f |-> [f EXCEPT !.pc = "done"], plugin |-> plugin]
    ELSE [f |-> [f EXCEPT !.pc = "extract"], plugin |-> plugin]

\* lines 252-256, 283-287 and 313-319: pic_gen, nano_gen and flow_gen up to
\* their first await.  _check_permission is not called.
image_tool_start(plugin, f) ==
    [f |-> [f EXCEPT !.pc = "extract"], plugin |-> plugin]

\* a handler from its invocation to its first await
handler_start(plugin, f) ==
    IF f.entry \in ImageCommands THEN _handle_gen_image(plugin, f)
    ELSE IF f.entry \in ImageTools THEN image_tool_start(plugin, f)
    ELSE video_start(plugin, f)

\* lines 352-371 and 500-519: a video handler from the end of the image
\* extraction to the curl subprocess of generate_video (lines 492-527)
video_dispatch(f) ==
    IF ~Truthy(f.flow_api_url) THEN Forgotten([f EXCEPT !.pc = "done"])
    ELSE [f EXCEPT !.pc = "video_call", !.calls = Append(@, "flow")]

\* lines 373-382, 521-530 and ttp.py 527-532: generate_video and the handler
\* after call_flow2api has returned result
video_result(f, result) ==
    IF Truthy(result) /\ StartsWith(result, <<"http">>)
    THEN Forgotten([f EXCEPT !.pc = "send", !.success = TRUE,
                             !.chain = [kind |-> "url", ref |-> result]])
    ELSE Forgotten([f EXCEPT !.pc = "done"])

\* what the chat receives for a chain: the media behind the URL, or the
\* content of the file at the time it is read
chain_media(chain, file) ==
    IF chain.kind = "url" THEN MediaAt(chain.ref)
    ELSE IF chain.ref = ImagePath THEN file
    ELSE "<no such file>"

----------------------------------------------------------------------------
(* main.py: _generate_core, the parameters read from the prompt; ttp.py:   *)
(* the aspect ratio and resolution put into each provider's request        *)

\* A prompt is a sequence of tokens: words, white space (one blank, or a
\* longer run), "--ar" in either case, the values that may follow it, and
\* the resolution directives.  An aspect_ratio or resolution is one token;
\* NoValue is None, the argument that was not passed.
NoValue == "<None>"
Wide == "  "
Whitespace == {Space, Wide}
ArWords == {"square", "landscape", "portrait"}

\* a plausible slip: the directive is tested for without lower-casing
same_case(token) == token

\* str.lower() of a token
lower(token) ==
    CASE token = "--AR" -> "--ar"
      [] token = "L" -> "l"
      [] token = "P" -> "p"
      [] token = "--2K" -> "--2k"
      [] OTHER -> token

\* str.upper() of a resolution
upper(token) ==
    CASE token = "1k" -> "1K"
      [] token = "2k" -> "2K"
      [] token = "4k" -> "4K"
      [] OTHER -> token

\* the first character of a token and what follows it
Initial(token) ==
    CASE token \in {"l", "landscape"} -> "l"
      [] token \in {"p", "portrait"} -> "p"
      [] token = "L" -> "L"
      [] token = "P" -> "P"
      [] OTHER -> "?"
Rest(token) ==
    CASE token = "landscape" -> <<"andscape">>
      [] token = "portrait" -> <<"ortrait">>
      [] OTHER -> <<>>

\* main.py 134, 137, 160, 163: "--ar l" in prompt.lower() (letter l or p)
contains_ar(prompt, letter) ==
    \E i \in 1..Len(prompt) - 2 :
        /\ lower(prompt[i]) = "--ar"
        /\ prompt[i + 1] = Space
        /\ lower(Initial(prompt[i + 2])) = letter

\* main.py 136, 139, 162, 165: re.sub(r'--ar\s+l', '', prompt, flags=re.IGNORECASE)
RECURSIVE re_sub_ar(_, _)
re_sub_ar(prompt, letter) ==
    IF prompt = <<>> THEN <<>>
    ELSE IF /\ Len(prompt) >= 3
            /\ lower(prompt[1]) = "--ar"
            /\ prompt[2] \in Whitespace
            /\ lower(Initial(prompt[3])) = letter
    THEN Rest(prompt[3]) \o re_sub_ar(SubSeq(prompt, 4, Len(prompt)), letter)
    ELSE <<Head(prompt)>> \o re_sub_ar(Tail(prompt), letter)

\* str.strip()
strip(prompt) ==
    LET inked == {i \in DOMAIN prompt : prompt[i] \notin Whitespace}
    IN IF inked = {} THEN <<>>
       ELSE SubSeq(prompt, First(inked), CHOOSE i \in inked : \A j \in inked : j <= i)

\* str.replace(old, ""): every occurrence of the tokens old is removed
RECURSIVE replace(_, _)
replace(prompt, old) ==
    IF Len(prompt) < Len(old) THEN prompt
    ELSE IF SubSeq(prompt, 1, Len(old)) = old
    THEN replace(SubSeq(prompt, Len(old) + 1, Len(prompt)), old)
    ELSE <<Head(prompt)>> \o replace(Tail(prompt), old)

\* main.py 132-139: the flow branch
flow_params(prompt, aspect_ratio) ==
    IF contains_ar(prompt, "l")
    THEN [aspect_ratio |-> "landscape", prompt |-> strip(re_sub_ar(prompt, "l"))]
    ELSE IF contains_ar(prompt, "p")
    THEN [aspect_ratio |-> "portrait", prompt |-> strip(re_sub_ar(prompt, "p"))]
    ELSE [aspect_ratio |-> aspect_ratio, prompt |-> prompt]

\* main.py 151-152: where re.search(r'--ar\s+(<allowed_ars>|square|landscape|
\* portrait)', prompt, re.IGNORECASE) matches first, 0 if nowhere
ar_search(prompt, allowed_ars) ==
    First({i \in 1..Len(prompt) - 2 :
             /\ lower(prompt[i]) = "--ar"
             /\ prompt[i + 1] \in Whitespace
             /\ lower(prompt[i + 2]) \in allowed_ars \cup ArWords})

\* the resolution directives and the resolution each names
ResTokens == {"--2k", "--2K", "--8k"}
ResOf(token) ==
    CASE token = "--2k" -> "2k"
      [] token = "--2K" -> "2K"
      [] token = "--8k" -> "8k"
      [] OTHER -> NoValue

\* main.py 171, ttp.py 575: where re.search(r'--(<allowed_res>)', prompt,
\* re.IGNORECASE) matches first, 0 if nowhere
res_search(prompt, allowed_res) ==
    First({i \in DOMAIN prompt :
             prompt[i] \in ResTokens /\ ResOf(lower(prompt[i])) \in allowed_res})

\* a plausible slip: the shorthand of the flow branch in the group branch
shorthand_words(letter) == IF letter = "l" THEN "landscape" ELSE "portrait"

\* main.py 161, 164: the ratio the shorthand l or p stands for
shorthand_ratio(letter) == IF letter = "l" THEN "16:9" ELSE "9:16"

\* main.py 148-165: the aspect ratio of the openai / official branch
group_ar(config, prompt, aspect_ratio) ==
    IF ~(config.enable_ar /\ aspect_ratio = NoValue)
    THEN [aspect_ratio |-> aspect_ratio, prompt |-> prompt]
    ELSE LET i == ar_search(prompt, config.allowed_ars)
         IN IF i > 0
            THEN [aspect_ratio |-> prompt[i + 2],
                  prompt |-> strip(replace(prompt, SubSeq(prompt, i, i + 2)))]
            ELSE IF contains_ar(prompt, "l")
            THEN [aspect_ratio |-> shorthand_ratio("l"),
                  prompt |-> strip(re_sub_ar(prompt, "l"))]
            ELSE IF contains_ar(prompt, "p")
            THEN [aspect_ratio |-> shorthand_ratio("p"),
                  prompt |-> strip(re_sub_ar(prompt, "p"))]
            ELSE [aspect_ratio |-> aspect_ratio, prompt |-> prompt]

\* main.py 167-174: the resolution of the openai / official branch
group_res(config, prompt, resolution) ==
    IF ~(config.enable_res /\ resolution = NoValue)
    THEN [resolution |-> resolution, prompt |-> prompt]
    ELSE LET i == res_search(prompt, config.allowed_res)
         IN IF i > 0
            THEN [resolution |-> upper(ResOf(prompt[i])),
                  prompt |-> strip(replace(prompt, <<prompt[i]>>))]
            ELSE [resolution |-> resolution, prompt |-> prompt]

\* main.py 132-174: [prompt, aspect_ratio, resolution] as handed to
\* generate_image, from the arguments of _generate_core
\*   args = [provider, config_group, config, prompt, aspect_ratio, resolution, model]
\* where config holds the four settings of the group config_group
_generate_core_params(args) ==
    IF args.provider = "flow" THEN
        LET f == flow_params(args.prompt, args.aspect_ratio)
        IN [prompt |-> f.prompt, aspect_ratio |-> f.aspect_ratio,
            resolution |-> args.resolution]
    ELSE IF args.provider \in {"openai", "official"} /\ args.config_group # NoValue THEN
        LET a == group_ar(args.config, args.prompt, args.aspect_ratio)
            r == group_res(args.config, a.prompt, args.resolution)
        IN [prompt |-> r.prompt, aspect_ratio |-> a.aspect_ratio,
            resolution |-> r.resolution]
    ELSE [prompt |-> args.prompt, aspect_ratio |-> args.aspect_ratio,
          resolution |-> args.resolution]

\* w, h = map(int, text.split(sep)): [ok |-> no exception, w, h]
ints(text) ==
    CASE text = "1:1" -> [ok |-> TRUE, w |-> 1, h |-> 1]
      [] text = "2:3" -> [ok |-> TRUE, w |-> 2, h |-> 3]
      [] text = "3:2" -> [ok |-> TRUE, w |-> 3, h |-> 2]
      [] text = "3:4" -> [ok |-> TRUE, w |-> 3, h |-> 4]
      [] text = "4:3" -> [ok |-> TRUE, w |-> 4, h |-> 3]
      [] text = "4:5" -> [ok |-> TRUE, w |-> 4, h |-> 5]
      [] text = "5:4" -> [ok |-> TRUE, w |-> 5, h |-> 4]
      [] text = "9:16" -> [ok |-> TRUE, w |-> 9, h |-> 16]
      [] text = "16:9" -> [ok |-> TRUE, w |-> 16, h |-> 9]
      [] text = "21:9" -> [ok |-> TRUE, w |-> 21, h |-> 9]
      [] text = "1024x1024" -> [ok |-> TRUE, w |-> 1024, h |-> 1024]
      [] text = "768x1024" -> [ok |-> TRUE, w |-> 768, h |-> 1024]
      [] text = "1024x768" -> [ok |-> TRUE, w |-> 1024, h |-> 768]
      [] OTHER -> [ok |-> FALSE, w |-> 1, h |-> 1]

\* a plausible slip: h >= w, so that a square counts as portrait
target_not_wider(aspect_ratio, image_size) ==
    IF aspect_ratio \notin {NoValue, ""} THEN
        IF lower(aspect_ratio) \in {"p", "portrait"} THEN "portrait"
        ELSE IF lower(aspect_ratio) \in {"l", "landscape"} THEN "landscape"
        ELSE IF ints(aspect_ratio).ok /\ ints(aspect_ratio).h >= ints(aspect_ratio).w
        THEN "portrait" ELSE "landscape"
    ELSE IF image_size \notin {NoValue, ""} THEN
        IF ints(image_size).ok /\ ints(image_size).h >= ints(image_size).w
        THEN "portrait" ELSE "landscape"
    ELSE "landscape"

\* ttp.py 17-40: target; an exception of the parsing leaves it "landscape"
target(aspect_ratio, image_size) ==
    IF aspect_ratio \notin {NoValue, ""} THEN
        IF lower(aspect_ratio) \in {"p", "portrait"} THEN "portrait"
        ELSE IF lower(aspect_ratio) \in {"l", "landscape"} THEN "landscape"
        ELSE IF ints(aspect_ratio).ok /\ ints(aspect_ratio).h > ints(aspect_ratio).w
        THEN "portrait" ELSE "landscape"
    ELSE IF image_size \notin {NoValue, ""} THEN
        IF ints(image_size).ok /\ ints(image_size).h > ints(image_size).w
        THEN "portrait" ELSE "landscape"
    ELSE "landscape"

\* ttp.py 14-42: f"{separator}{target}"
get_model_suffix(aspect_ratio, image_size, separator) ==
    IF separator = "-"
    THEN (IF target(aspect_ratio, image_size) = "portrait" THEN "-portrait" ELSE "-landscape")
    ELSE (IF target(aspect_ratio, image_size) = "portrait" THEN "_portrait" ELSE "_landscape")

\* A model name is a sequence of tokens: its stem, then the suffixes it
\* carries ("-preview", "-portrait", "_landscape", ...).
\* ttp.py 371-385: the model name of the Flow2API image request
flow_model_of(model, aspect_ratio, image_size) ==
    LET suffix == get_model_suffix(aspect_ratio, image_size, "-")
        flow_model == IF model[1] \in {"gemini-3-pro-image", "Gemini-2.5-flash-image"}
                         /\ model[Len(model)] = "-preview"
                      THEN SubSeq(model, 1, Len(model) - 1) ELSE model
    IN IF \E i \in DOMAIN flow_model : flow_model[i] \in {"-landscape", "-portrait", "-square"}
       THEN flow_model ELSE Append(flow_model, suffix)

\* ttp.py 499-502: the model name of the Flow2API video request
video_model_of(model, aspect_ratio) ==
    LET suffix == get_model_suffix(aspect_ratio, NoValue, "_")
    IN IF \E i \in DOMAIN model : model[i] \in {"_landscape", "_portrait"}
       THEN model ELSE Append(model, suffix)

\* ttp.py 275-291: image_config of the OpenAI-compatible request; a resolution
\* that names none of 1K, 2K, 4K is left out
openai_image_config(aspect_ratio, resolution) ==
    [aspect |-> aspect_ratio,
     size |-> IF resolution # NoValue /\ upper(resolution) \in {"1K", "2K", "4K"}
              THEN upper(resolution) ELSE NoValue]

\* ttp.py 552
valid_ratios == {"1:1", "2:3", "3:2", "3:4", "4:3", "4:5", "5:4", "9:16", "16:9", "21:9"}
\* tokens of the form \d+:\d+
Ratios == valid_ratios \cup {"7:5"}

\* ttp.py 544-578, 596-600: image_config of the Gemini request; the prompt is
\* searched again when an argument is None
gemini_image_config(prompt, model, aspect_ratio, resolution) ==
    LET i == First({k \in 1..Len(prompt) - 2 :
                      /\ prompt[k] = "--ar"
                      /\ prompt[k + 1] \in Whitespace
                      /\ prompt[k + 2] \in Ratios})
        target_ratio == IF aspect_ratio # NoValue THEN aspect_ratio
                        ELSE IF i > 0 /\ prompt[i + 2] \in valid_ratios THEN prompt[i + 2]
                        ELSE "1:1"
        j == res_search(prompt, {"1k", "2k", "4k"})
        target_resolution == IF resolution # NoValue THEN resolution
                             ELSE IF j > 0 THEN upper(ResOf(prompt[j]))
                             ELSE NoValue
    IN [aspect |-> target_ratio,
        size |-> IF model # "flash" THEN target_resolution ELSE NoValue]

\* the aspect ratio and the resolution of the request generate_image builds
request_of(provider, model, params) ==
    IF provider = "openai" THEN openai_image_config(params.aspect_ratio, params.resolution)
    ELSE IF provider = "official"
    THEN gemini_image_config(params.prompt, model, params.aspect_ratio, params.resolution)
    ELSE [aspect |-> target(params.aspect_ratio, "1024x1024"), size |-> NoValue]

\* main.py 132-190 and the request built in ttp.py: what _generate_core makes
\* of its arguments
core_result_of(args) ==
    LET params == _generate_core_params(args)
    IN [done |-> TRUE, prompt |-> params.prompt, aspect_ratio |-> params.aspect_ratio,
        resolution |-> params.resolution,
        request |-> request_of(args.provider, args.model, params)]

----------------------------------------------------------------------------
(* The environment: configurations, events and what the providers answer *)

MaxTokens == 2        \* longest token list configured
MaxInvocations == 3   \* invocations started in one run
MaxImages == 2        \* longest images list in a response
MaxLines == 2         \* most lines in a streamed response
MaxWhiteList == 2     \* longest whitelist

SeqsUpTo(S, n) == UNION {[1..k -> S] : k \in 0..n}

ApiUrl == <<Http, "://localhost:8317/v1/chat/completions">>
ApiKey == <<"<google_api_key>">>
TokenNames == <<"t1", "t2", "t3", "t4">>
TokenList(n) == [i \in 1..n |-> <<TokenNames[i]>>]

\* MyPlugin.__init__ (lines 11-37) for a configuration
Plugin(users, groups, openai_url, openai_tokens, flow_url, flow_tokens, key) ==
    [user_white_list |-> users, group_white_list |-> groups,
     openai_api_url |-> openai_url, openai_api_tokens |-> openai_tokens,
     flow_api_url |-> flow_url, flow_api_tokens |-> flow_tokens,
     google_api_key |-> key, openai_idx |-> 0, flow_idx |-> 0]

JsonBody(keys, error, choices, data) ==
    [fmt |-> "json", keys |-> keys, error |-> error, choices |-> choices,
     data |-> data, lines |-> <<>>]
TextBody(lines) ==
    [fmt |-> "text", keys |-> {}, error |-> <<>>, choices |-> <<>>, data |-> <<>>,
     lines |-> lines]
Message(content, images) == [message |-> [content |-> content, images |-> images]]
Img(url) == [url |-> url]
DataLine(content, images, reasoning) ==
    [type |-> "data",
     delta |-> [content |-> content, images |-> images, reasoning |-> reasoning]]
Line(type) == [DataLine(<<>>, <<>>, <<>>) EXCEPT !.type = type]
CurlOk(body) == [curl |-> "ok", body |-> body]
CurlFailed == [curl |-> "failed", body |-> TextBody(<<>>)]
CurlException == [curl |-> "exception", body |-> TextBody(<<>>)]
DataUri(payload) == <<"data:", "image", "/png;base64", ",", payload>>
MdLink(url) == <<MdOpen>> \o url \o <<CloseParen>>

\* what the curl subprocess may do when asked for media m
ProviderResponses(m) ==
    { CurlException, CurlFailed,
      CurlOk(TextBody(<<>>)),
      CurlOk(JsonBody({"choices"}, <<>>, <<Message(<<"a cat">>, <<>>)>>, <<>>)),
      CurlOk(JsonBody({"choices"}, <<>>, <<Message(None, <<Img(MediaUrl(m))>>)>>, <<>>)),
      CurlOk(JsonBody({"choices"}, <<>>, <<Message(None, <<Img(DataUri(m))>>)>>, <<>>)),
      CurlOk(JsonBody({"choices"}, <<>>,
                      <<Message(None, <<Img(DataUri("<bad padding>"))>>)>>, <<>>)),
      CurlOk(TextBody(<<DataLine(MdLink(MediaUrl(m)), <<>>, <<>>), Line("done")>>)) }

\* how the GET of a media URL may end
DownloadOutcomes == {"200", "404", "exception"}

GeminiAnswer(post, status, json, parts) ==
    [post |-> post, status |-> status, json |-> json, parts |-> parts]
Part(kind, data) == [kind |-> kind, data |-> data]

\* what the exchange with the Gemini endpoint may be when asked for media m
GeminiResponses(m) ==
    { GeminiAnswer("raises", 0, FALSE, <<>>),
      GeminiAnswer("ok", 500, TRUE, <<>>),
      GeminiAnswer("ok", 200, FALSE, <<>>),
      GeminiAnswer("ok", 200, TRUE, <<>>),
      GeminiAnswer("ok", 200, TRUE, <<Part("text", "words")>>),
      GeminiAnswer("ok", 200, TRUE, <<Part("text", "words"), Part("image", m)>>),
      GeminiAnswer("ok", 200, TRUE, <<Part("image", "<bad padding>")>>),
      GeminiAnswer("ok", 200, TRUE, <<Part("malformed", "words")>>) }

----------------------------------------------------------------------------
(* The plugin under concurrent invocations *)

\* Two configurations with both whitelists set, one with every endpoint
\* configured and one with none, and the events of two senders: a member of a
\* whitelisted group and a stranger.
PluginConfigs ==
    { Plugin(<<IntId("101")>>, <<StrId("202")>>, ApiUrl, TokenList(1), ApiUrl,
             TokenList(MaxTokens), ApiKey),
      Plugin(<<IntId("101")>>, <<StrId("202")>>, <<>>, <<>>, <<>>, TokenList(1), None) }
PluginEvents ==
    { [user_id |-> StrId("303"), group_id |-> IntId("202")],
      [user_id |-> StrId("303"), group_id |-> StrId("")] }

\* main.py 144-147: the defaults of a group's four settings
DefaultConfig ==
    [enable_ar |-> TRUE, allowed_ars |-> valid_ratios,
     enable_res |-> FALSE, allowed_res |-> {"1k", "2k", "4k"}]
NoArgs ==
    [provider |-> "flow", config_group |-> NoValue, config |-> DefaultConfig,
     prompt |-> <<>>, aspect_ratio |-> NoValue, resolution |-> NoValue, model |-> "pro"]
NoResult ==
    [done |-> FALSE, prompt |-> <<>>, aspect_ratio |-> NoValue, resolution |-> NoValue,
     request |-> [aspect |-> NoValue, size |-> NoValue]]

NoCallArgs == [fn |-> "none"]
NoCallResult == [done |-> FALSE]

\* no repeated parse and no call of _generate_core with parameters has been made
Untouched ==
    /\ parses = <<>>
    /\ left_over = <<>>
    /\ core_args = NoArgs
    /\ core_result = NoResult
    /\ call_args = NoCallArgs
    /\ call_result = NoCallResult

NoLog == [openai |-> <<>>, flow |-> <<>>]

\* the log with the token of a call for provider p added
Logged(log, p, token) ==
    IF p \in {"openai", "flow"} /\ token # None
    THEN [log EXCEPT ![p] = Append(@, token)] ELSE log

\* the file after a step that took the invocation from f to g
Written(f, g, file) == IF g.wrote # f.wrote THEN g.wrote ELSE file

Init ==
    /\ self \in PluginConfigs
    /\ downloaded_image = "<no file>"
    /\ req = [r \in Reqs |-> IdleReq]
    /\ started = 0
    /\ taken = NoLog
    /\ used = NoLog
    /\ perm_event = NoEvent
    /\ perm_result = FALSE
    /\ response = CurlFailed
    /\ parsed = None
    /\ Untouched

\* The framework calls a handler, which runs to its first await.
Invoke(r) ==
    /\ req[r].pc \in {"idle", "done", "raised"}
    /\ started < MaxInvocations
    /\ \E entry \in Entries, event \in PluginEvents :
         LET h == handler_start(self, [IdleReq EXCEPT !.entry = entry, !.event = event])
         IN /\ req' = [req EXCEPT ![r] = h.f]
            /\ self' = h.plugin
            /\ taken' = IF h.f.advanced THEN Logged(taken, "flow", h.f.flow_api_token)
                        ELSE taken
    /\ started' = started + 1
    /\ UNCHANGED <<downloaded_image, used, perm_event, perm_result, response, parsed, reparse_vars, normalizer_vars, call_vars>>

\* _get_event_images has returned; the handler runs to its next await: the
\* video handlers to generate_video, the image handlers through
\* _generate_core to the first await of generate_image.
GetEventImages(r) ==
    /\ req[r].pc = "extract"
    /\ LET f == [req[r] EXCEPT !.extracted = TRUE]
       IN IF f.entry \in VideoEntries
          THEN /\ req' = [req EXCEPT ![r] = video_dispatch(f)]
               /\ used' = Logged(used, "flow", f.flow_api_token)
               /\ UNCHANGED <<self, taken>>
          ELSE LET c == _generate_core(self, f)
               IN /\ req' = [req EXCEPT ![r] = c.f]
                  /\ self' = c.plugin
                  /\ taken' = IF c.f.advanced
                              THEN Logged(taken, c.f.provider, c.token)
                              ELSE taken
                  /\ used' = IF c.dispatched
                             THEN Logged(used, c.f.provider, c.token)
                             ELSE used
    /\ UNCHANGED <<downloaded_image, started, perm_event, perm_result, response, parsed, reparse_vars, normalizer_vars, call_vars>>

\* The curl subprocess of call_flow2api has ended, inside generate_image.
CurlReturns(r) ==
    /\ req[r].pc \in {"openai_call", "flow_call"}
    /\ \E resp \in ProviderResponses(r) :
         LET g == resume(gi_result(req[r], call_flow2api(resp)))
         IN /\ req' = [req EXCEPT ![r] = g]
            /\ downloaded_image' = Written(req[r], g, downloaded_image)
    /\ UNCHANGED <<self, started, taken, used, perm_event, perm_result, response, parsed, reparse_vars, normalizer_vars, call_vars>>

\* The download of the media URL has ended.
DownloadReturns(r) ==
    /\ req[r].pc \in {"openai_download", "flow_download"}
    /\ \E status \in DownloadOutcomes :
         LET g == resume(gi_downloaded(req[r], status))
         IN /\ req' = [req EXCEPT ![r] = g]
            /\ downloaded_image' = Written(req[r], g, downloaded_image)
    /\ UNCHANGED <<self, started, taken, used, perm_event, perm_result, response, parsed, reparse_vars, normalizer_vars, call_vars>>

\* The exchange with the Gemini endpoint has ended.
GeminiReturns(r) ==
    /\ req[r].pc = "gemini_call"
    /\ \E answer \in GeminiResponses(r) :
         LET g == resume(gi_gemini(req[r],
                                   generate_image_gemini(req[r].google_api_key, answer)))
         IN /\ req' = [req EXCEPT ![r] = g]
            /\ downloaded_image' = Written(req[r], g, downloaded_image)
    /\ UNCHANGED <<self, started, taken, used, perm_event, perm_result, response, parsed, reparse_vars, normalizer_vars, call_vars>>

\* The curl subprocess of call_flow2api has ended, inside generate_video.
VideoReturns(r) ==
    /\ req[r].pc = "video_call"
    /\ \E resp \in ProviderResponses(r) :
         req' = [req EXCEPT ![r] = video_result(req[r], call_flow2api(resp))]
    /\ UNCHANGED <<self, downloaded_image, started, taken, used, perm_event, perm_result,
                   response, parsed, reparse_vars, normalizer_vars, call_vars>>

\* The framework sends the reply chain to the chat.
Deliver(r) ==
    /\ req[r].pc = "send"
    /\ req' = [req EXCEPT ![r] = [req[r] EXCEPT
                                    !.pc = "done",
                                    !.delivered = chain_media(req[r].chain,
                                                              downloaded_image)]]
    /\ UNCHANGED <<self, downloaded_image, started, taken, used, perm_event, perm_result,
                   response, parsed, reparse_vars, normalizer_vars, call_vars>>

Next ==
    \E r \in Reqs :
        \/ Invoke(r)
        \/ GetEventImages(r)
        \/ CurlReturns(r)
        \/ DownloadReturns(r)
        \/ GeminiReturns(r)
        \/ VideoReturns(r)
        \/ Deliver(r)

Spec == Init /\ [][Next]_vars

----------------------------------------------------------------------------
(* generate_image called as a function, with any arguments *)

BasePlugin == Plugin(<<>>, <<>>, ApiUrl, TokenList(1), ApiUrl, TokenList(MaxTokens), ApiKey)

Providers == {"flow", "openai", "official", "<None>"}

InitBase ==
    /\ self = BasePlugin
    /\ downloaded_image = "<no file>"
    /\ req = [r \in Reqs |-> IdleReq]
    /\ started = 0
    /\ taken = NoLog
    /\ used = NoLog
    /\ perm_event = NoEvent
    /\ perm_result = FALSE
    /\ response = CurlFailed
    /\ parsed = None
    /\ Untouched

\* a call of generate_image, up to its first await
DirectCall(r) ==
    /\ req[r].pc \in {"idle", "returned", "raised"}
    /\ \E provider \in Providers, url \in {None, <<>>, ApiUrl}, key \in {None, ApiKey} :
         req' = [req EXCEPT ![r] =
                    gi_enter([IdleReq EXCEPT !.entry = "generate_image",
                                             !.provider = provider,
                                             !.flow_api_url = url,
                                             !.flow_api_token = <<"t1">>,
                                             !.google_api_key = key])]
    /\ UNCHANGED <<self, downloaded_image, started, taken, used, perm_event, perm_result,
                   response, parsed, reparse_vars, normalizer_vars, call_vars>>

NextDispatch ==
    \/ DirectCall("A")
    \/ CurlReturns("A")
    \/ DownloadReturns("A")
    \/ GeminiReturns("A")

SpecDispatch == InitBase /\ [][NextDispatch]_vars

----------------------------------------------------------------------------
(* call_flow2api applied to any response *)

ParseUrls == {<<Http, "://img/1.png">>, <<Http, "://img/2.png">>}
ImgEntries == {Img(u) : u \in ParseUrls \cup {None}}
\* a text with a bare URL, then a video tag, then a Markdown image link
ThreeKinds ==
    <<Http, "://media/A", Space, VideoOpen, Http, "://vid/1.mp4", Quote, Space>>
    \o MdLink(<<Http, "://txt/x">>)
\* a text with a bare URL, then a video tag
TwoKinds == SubSeq(ThreeKinds, 1, 7)
\* a Markdown image link cut in two inside its URL
LinkHead == <<MdOpen, Http>>
LinkTail == <<"://txt/x", CloseParen>>
Contents == {None, <<"a cat">>, MdLink(<<Http, "://txt/x">>), LinkHead, LinkTail,
             TwoKinds, ThreeKinds}
MisshapenBody == [TextBody(<<>>) EXCEPT !.fmt = "misshapen"]

JsonBodies ==
    { JsonBody(keys, error, choices, data) :
        keys \in SUBSET {"error", "choices", "data"},
        error \in {<<"quota exceeded">>},
        choices \in {<<>>} \cup { <<Message(c, imgs)>> :
                                   c \in Contents, imgs \in SeqsUpTo(ImgEntries, MaxImages) },
        data \in {<<>>, <<Img(<<Http, "://img/1.png">>)>>} }

SseLines ==
    { Line("done"), Line("other"), Line("badjson"), Line("misshapen"), Line("blank") }
    \cup { DataLine(c, imgs, <<>>) :
             c \in Contents,
             imgs \in {<<>>, <<Img(<<Http, "://img/1.png">>)>>,
                       <<Img(<<Http, "://img/1.png">>), Img(<<Http, "://img/2.png">>)>>} }
    \cup { DataLine(<<>>, <<>>, r) : r \in {<<"thinking">>, <<"Error", " no quota">>} }
    \cup { DataLine(LinkHead, <<>>, <<"Error", " no quota">>) }

ParseResponses ==
    {CurlException, CurlFailed}
    \cup {CurlOk(b) : b \in JsonBodies \cup {MisshapenBody}}
    \cup {CurlOk(TextBody(lines)) : lines \in SeqsUpTo(SseLines, MaxLines)}

\* curl has ended with any of the responses; call_flow2api has not yet
\* looked at it (parsed is None; call_flow2api itself never returns None)
InitParse ==
    /\ self = BasePlugin
    /\ downloaded_image = "<no file>"
    /\ req = [r \in Reqs |-> IdleReq]
    /\ started = 0
    /\ taken = NoLog
    /\ used = NoLog
    /\ perm_event = NoEvent
    /\ perm_result = FALSE
    /\ response \in ParseResponses
    /\ parsed = None
    /\ Untouched

CallFlow2api ==
    /\ parsed = None
    /\ parsed' = call_flow2api(response)
    /\ UNCHANGED <<self, downloaded_image, req, started, taken, used, perm_event,
                   perm_result, response, reparse_vars, normalizer_vars, call_vars>>

SpecParse == InitParse /\ [][CallFlow2api]_vars

----------------------------------------------------------------------------
(* call_flow2api called again and again *)

MaxParses == 3

\* bodies that leave a text, a URL, an image or nothing behind
ReparseResponses ==
    { CurlFailed,
      CurlOk(TextBody(<<>>)),
      CurlOk(TextBody(<<Line("other")>>)),
      CurlOk(TextBody(<<DataLine(<<"a cat">>, <<>>, <<>>)>>)),
      CurlOk(TextBody(<<DataLine(LinkHead, <<>>, <<>>), DataLine(LinkTail, <<>>, <<>>)>>)),
      CurlOk(JsonBody({"choices"}, <<>>,
                      <<Message(<<"a cat">>, <<Img(<<Http, "://img/1.png">>)>>)>>, <<>>)) }

\* one more call: parses records the response and what was returned,
\* left_over the text the call had accumulated when it returned
Reparse ==
    /\ Len(parses) < MaxParses
    /\ \E resp \in ReparseResponses :
          LET call == call_flow2api_after(resp, left_over)
          IN /\ parses' = Append(parses, [response |-> resp, result |-> call.ret])
             /\ left_over' = call.full_content
    /\ UNCHANGED <<self, downloaded_image, req, started, taken, used, perm_event,
                   perm_result, response, parsed, normalizer_vars, call_vars>>

SpecReparse == InitBase /\ [][Reparse]_vars

----------------------------------------------------------------------------
(* _generate_core called with any prompt, arguments and group settings *)

MaxDirectives == 2    \* most directives in a prompt

\* a directive as typed after the text of a prompt
Directives ==
    { <<Space, "--ar", Space, "l">>, <<Space, "--AR", Space, "P">>,
      <<Space, "--ar", Space, "p">>, <<Space, "--ar", Wide, "p">>,
      <<Space, "--ar", Space, "landscape">>,
      <<Space, "--ar", Space, "4:3">>, <<Space, "--ar", Space, "16:9">>,
      <<Space, "--2k">> }

RECURSIVE Flat(_)
Flat(pieces) == IF pieces = <<>> THEN <<>> ELSE Head(pieces) \o Flat(Tail(pieces))
Prompts == { <<"a cat">> \o Flat(ds) : ds \in SeqsUpTo(Directives, MaxDirectives) }

\* the settings an administrator may give a command group
GroupConfigs ==
    [enable_ar : BOOLEAN, allowed_ars : {valid_ratios, {"4:3"}},
     enable_res : BOOLEAN, allowed_res : {{"1k", "2k", "4k"}, {"1k"}}]

\* the calls of _generate_core: flow without a group, the other two
\* providers with or without one; a flash model only matters to official
CoreArgs ==
    { [provider |-> pr, config_group |-> g, config |-> c, prompt |-> p,
       aspect_ratio |-> a, resolution |-> r, model |-> m] :
        pr \in {"flow", "openai", "official"}, g \in {NoValue, "nano_pro"},
        c \in GroupConfigs, p \in Prompts, a \in {NoValue, "16:9"},
        r \in {NoValue, "4K"}, m \in {"pro", "flash"} }
    \ { x \in [provider : {"flow", "openai", "official"}, config_group : {NoValue, "nano_pro"},
               config : GroupConfigs, prompt : Prompts, aspect_ratio : {NoValue, "16:9"},
               resolution : {NoValue, "4K"}, model : {"pro", "flash"}] :
          \/ x.config_group = NoValue /\ x.config # DefaultConfig
          \/ x.provider = "flow" /\ x.config_group # NoValue
          \/ x.provider # "official" /\ x.model = "flash" }

InitNormalize ==
    /\ self = BasePlugin
    /\ downloaded_image = "<no file>"
    /\ req = [r \in Reqs |-> IdleReq]
    /\ started = 0
    /\ taken = NoLog
    /\ used = NoLog
    /\ perm_event = NoEvent
    /\ perm_result = FALSE
    /\ response = CurlFailed
    /\ parsed = None
    /\ parses = <<>>
    /\ left_over = <<>>
    /\ core_args \in CoreArgs
    /\ core_result = NoResult
    /\ call_args = NoCallArgs
    /\ call_result = NoCallResult

\* _generate_core up to the request it has generate_image send
GenerateCore ==
    /\ ~core_result.done
    /\ core_result' = core_result_of(core_args)
    /\ UNCHANGED <<self, downloaded_image, req, started, taken, used, perm_event,
                   perm_result, response, parsed, reparse_vars, core_args, call_vars>>

SpecNormalize == InitNormalize /\ [][GenerateCore]_vars

----------------------------------------------------------------------------
(* _check_permission applied to any event under any whitelists *)

ConfigIds == {IntId("101"), StrId("101"), StrId("202"), IntId("404")}
PermEvents ==
    { [user_id |-> u, group_id |-> g] :
        u \in {StrId("101"), IntId("404"), StrId("303")},
        g \in {NoneId, StrId(""), IntId("202"), StrId("404"), StrId("505")} }

InitPerm ==
    /\ self \in { [BasePlugin EXCEPT !.user_white_list = users, !.group_white_list = groups] :
                    users \in SeqsUpTo(ConfigIds, MaxWhiteList),
                    groups \in SeqsUpTo(ConfigIds, MaxWhiteList) }
    /\ downloaded_image = "<no file>"
    /\ req = [r \in Reqs |-> IdleReq]
    /\ started = 0
    /\ taken = NoLog
    /\ used = NoLog
    /\ perm_event = NoEvent
    /\ perm_result = FALSE
    /\ response = CurlFailed
    /\ parsed = None
    /\ Untouched

CheckPermission ==
    /\ \E event \in PermEvents :
         /\ perm_event' = event
         /\ perm_result' = _check_permission(self, event)
    /\ UNCHANGED <<self, downloaded_image, req, started, taken, used, response, parsed, reparse_vars, normalizer_vars, call_vars>>

SpecPerm == InitPerm /\ [][CheckPermission]_vars

----------------------------------------------------------------------------
(* The model name of a Flow2API request, for any name, aspect ratio and size *)

ImageModels ==
    { <<"gemini-3-pro-image", "-preview">>, <<"Gemini-2.5-flash-image">>,
      <<"flux">>, <<"flux", "-preview">>, <<"flux", "-portrait">>, <<"flux", "-square">>,
      <<"gemini-3-pro-image", "-landscape", "-preview">> }
VideoModels ==
    { <<"veo_3_1_t2v_fast">>, <<"veo_3_1_i2v_s_fast_fl">>,
      <<"veo_3_1_t2v_fast", "_portrait">>, <<"veo_3_1_i2v_s_fast_fl", "_landscape">> }
AspectRatios ==
    {NoValue, "", "p", "P", "portrait", "l", "landscape", "square", "1:1", "16:9",
     "9:16", "3:4", "3:x"}
ImageSizes == {NoValue, "1024x1024", "768x1024", "1024x768", "1024x", "big"}

SuffixCalls ==
    { [fn |-> "generate_image", model |-> m, aspect_ratio |-> a, image_size |-> z] :
        m \in ImageModels, a \in AspectRatios, z \in ImageSizes }
    \cup { [fn |-> "generate_video", model |-> m, aspect_ratio |-> a, image_size |-> NoValue] :
             m \in VideoModels, a \in AspectRatios }

\* the plugin is idle and no other function is being looked at
Elsewhere ==
    /\ self = BasePlugin
    /\ downloaded_image = "<no file>"
    /\ req = [r \in Reqs |-> IdleReq]
    /\ started = 0
    /\ taken = NoLog
    /\ used = NoLog
    /\ perm_event = NoEvent
    /\ perm_result = FALSE
    /\ response = CurlFailed
    /\ parsed = None
    /\ parses = <<>>
    /\ left_over = <<>>
    /\ core_args = NoArgs
    /\ core_result = NoResult

InitSuffix ==
    /\ Elsewhere
    /\ call_args \in SuffixCalls
    /\ call_result = NoCallResult

\* generate_image (Flow2API branch) or generate_video up to the payload
FlowModel ==
    /\ call_args.fn \in {"generate_image", "generate_video"}
    /\ ~call_result.done
    /\ call_result' =
           [done |-> TRUE,
            flow_model |-> IF call_args.fn = "generate_image"
                           THEN flow_model_of(call_args.model, call_args.aspect_ratio,
                                              call_args.image_size)
                           ELSE video_model_of(call_args.model, call_args.aspect_ratio)]
    /\ UNCHANGED <<self, downloaded_image, req, started, taken, used, perm_event,
                   perm_result, response, parsed, reparse_vars, normalizer_vars, call_args>>

SpecSuffix == InitSuffix /\ [][FlowModel]_vars

----------------------------------------------------------------------------
(* main.py: _get_event_images applied to any message *)

\* A message component: kind is the class (Plain, Image, Reply, At); out is
\* what convert_to_base64 gives for an Image, or for the avatar of an At: the
\* base64 text, "" or Raises; chain is the quoted message of a Reply; qq is
\* the id of an At.
Raises == "<raises>"
Comp(kind, out, chain, qq) == [kind |-> kind, out |-> out, chain |-> chain, qq |-> qq]
Plain == Comp("Plain", "", <<>>, NoneId)
ImageComp(out) == Comp("Image", out, <<>>, NoneId)
ReplyComp(chain) == Comp("Reply", "", chain, NoneId)
AtComp(qq, out) == Comp("At", out, <<>>, qq)

\* lines 75-82: process_chain, appending to input_images_b64
RECURSIVE process_chain(_, _)
process_chain(chain, input_images_b64) ==
    IF chain = <<>> THEN input_images_b64
    ELSE LET comp == Head(chain)
         IN IF comp.kind = "Image" /\ comp.out # Raises
            THEN process_chain(Tail(chain), Append(input_images_b64, comp.out))
            ELSE process_chain(Tail(chain), input_images_b64)

\* lines 89-91: the quoted messages
RECURSIVE reply_images(_, _)
reply_images(message, input_images_b64) ==
    IF message = <<>> THEN input_images_b64
    ELSE LET comp == Head(message)
         IN IF comp.kind = "Reply" /\ comp.chain # <<>>
            THEN reply_images(Tail(message), process_chain(comp.chain, input_images_b64))
            ELSE reply_images(Tail(message), input_images_b64)

\* lines 98-102
mention_wanted(qq, ignore_at_qq_list) ==
    str(qq) # "" /\ str(qq) \notin {str(x) : x \in Range(ignore_at_qq_list)}

\* lines 95-110: the avatars of the mentioned users
RECURSIVE mention_avatars(_, _, _)
mention_avatars(message, ignore_at_qq_list, input_images_b64) ==
    IF message = <<>> THEN input_images_b64
    ELSE LET comp == Head(message)
         IN IF /\ comp.kind = "At"
               /\ mention_wanted(comp.qq, ignore_at_qq_list)
               /\ comp.out \notin {Raises, ""}
            THEN mention_avatars(Tail(message), ignore_at_qq_list,
                                 Append(input_images_b64, comp.out))
            ELSE mention_avatars(Tail(message), ignore_at_qq_list, input_images_b64)

\* lines 113-123: the avatar of the sender
sender_avatar(event, input_images_b64) ==
    IF ~event.has_message_obj THEN input_images_b64
    ELSE IF ~TruthyId(event.sender_id) THEN input_images_b64
    ELSE IF event.sender_out \in {Raises, ""} THEN input_images_b64
    ELSE Append(input_images_b64, event.sender_out)

\* a plausible slip: the avatars are collected before the quoted images
_get_event_images_avatars_first(event, ignore_at_qq_list, include_sender_avatar) ==
    LET message == IF event.has_message_obj THEN event.message ELSE <<>>
        own == process_chain(message, <<>>)
        mentioned == mention_avatars(message, ignore_at_qq_list, own)
        quoted == reply_images(message, mentioned)
    IN IF include_sender_avatar THEN sender_avatar(event, quoted) ELSE quoted

\* MyPlugin._get_event_images
_get_event_images(event, ignore_at_qq_list, include_sender_avatar) ==
    LET message == IF event.has_message_obj THEN event.message ELSE <<>>
        own == process_chain(message, <<>>)
        quoted == reply_images(message, own)
        mentioned == mention_avatars(message, ignore_at_qq_list, quoted)
    IN IF include_sender_avatar THEN sender_avatar(event, mentioned) ELSE mentioned

MaxComps == 3

ImageComps == {ImageComp(out) : out \in {"i1", "i2", "", Raises}}
ReplyChains == {<<>>, <<ImageComp("r1")>>,
                <<ImageComp(Raises), AtComp(IntId("101"), "a101"), ImageComp("r2")>>}
ReplyComps == {ReplyComp(chain) : chain \in ReplyChains}
AtComps == {AtComp(IntId("101"), "a101"), AtComp(IntId("202"), "a202"),
            AtComp(IntId("202"), ""), AtComp(StrId("101"), Raises)}
Comps == {Plain} \cup ImageComps \cup ReplyComps \cup AtComps
\* the messages of up to n components
Messages(n) == UNION {[1..k -> Comps] : k \in 0..n}

Event(has_message_obj, message, sender_id, sender_out) ==
    [has_message_obj |-> has_message_obj, message |-> message,
     sender_id |-> sender_id, sender_out |-> sender_out]
Senders == {<<IntId("303"), "s303">>, <<IntId("303"), Raises>>, <<NoneId, "">>}
\* the events with a message of up to n components, and one without message_obj
ImageEvents(n) ==
    {Event(TRUE, message, sender[1], sender[2]) : message \in Messages(n), sender \in Senders}
        \cup {Event(FALSE, <<>>, NoneId, "")}
IgnoreLists == {<<>>, <<IntId("101")>>, <<StrId("202")>>}

ImageCalls(n) ==
    {[fn |-> "_get_event_images", event |-> event, ignore_at_qq_list |-> ignore,
      include_sender_avatar |-> include] :
        event \in ImageEvents(n), ignore \in IgnoreLists, include \in BOOLEAN}

InitImages ==
    /\ Elsewhere
    /\ call_args \in ImageCalls(MaxComps)
    /\ call_result = NoCallResult

EventImages ==
    /\ call_args.fn = "_get_event_images"
    /\ ~call_result.done
    /\ call_result' = [done |-> TRUE,
                       images |-> _get_event_images(call_args.event,
                                                    call_args.ignore_at_qq_list,
                                                    call_args.include_sender_avatar)]
    /\ UNCHANGED <<self, downloaded_image, req, started, taken, used, perm_event,
                   perm_result, response, parsed, reparse_vars, normalizer_vars, call_args>>

SpecImages == InitImages /\ [][EventImages]_vars

----------------------------------------------------------------------------
(* generate_image and generate_video applied to any result of call_flow2api *)

\* who awaits call_flow2api: generate_image with provider 'openai', 'flow'
\* or none, or generate_video
Callers == {"openai", "flow", "<None>", "video"}

\* the caller at its await of call_flow2api
awaiting(caller) ==
    IF caller = "video"
    THEN video_dispatch([IdleReq EXCEPT !.entry = "cmd_gen_video", !.provider = "flow",
                                        !.flow_api_url = ApiUrl,
                                        !.flow_api_token = <<"t1">>])
    ELSE gi_enter([IdleReq EXCEPT !.entry = "generate_image", !.provider = caller,
                                  !.flow_api_url = ApiUrl, !.flow_api_token = <<"t1">>,
                                  !.google_api_key = ApiKey])

ResultCalls(responses) ==
    {[fn |-> "call_flow2api", caller |-> caller, response |-> resp] :
        caller \in Callers, resp \in responses}

InitResult ==
    /\ Elsewhere
    /\ call_args \in ResultCalls(ParseResponses)
    /\ call_result = NoCallResult

\* call_flow2api returns to its caller, which runs to its next await or its end
HandleResult ==
    /\ call_args.fn = "call_flow2api"
    /\ ~call_result.done
    /\ LET result == call_flow2api(call_args.response)
           f == awaiting(call_args.caller)
       IN call_result' = [done |-> TRUE, result |-> result,
                          f |-> IF call_args.caller = "video"
                                THEN video_result(f, result)
                                ELSE gi_result(f, result)]
    /\ UNCHANGED <<self, downloaded_image, req, started, taken, used, perm_event,
                   perm_result, response, parsed, reparse_vars, normalizer_vars, call_args>>

\* the download generate_image started has ended
HandleDownload ==
    /\ call_args.fn = "call_flow2api"
    /\ call_result.done
    /\ call_result.f.pc \in {"openai_download", "flow_download"}
    /\ \E status \in DownloadOutcomes :
         call_result' = [call_result EXCEPT !.f = gi_downloaded(call_result.f, status)]
    /\ UNCHANGED <<self, downloaded_image, req, started, taken, used, perm_event,
                   perm_result, response, parsed, reparse_vars, normalizer_vars, call_args>>

NextResult == HandleResult \/ HandleDownload

SpecResult == InitResult /\ [][NextResult]_vars

----------------------------------------------------------------------------
(* ttp.py: call_flow2api and its temporary payload file *)

\* One call is a record t: pc ("subprocess" while it awaits curl, "returned"
\* at its end), temp_file ("absent" or "present" on disk), created (mkstemp
\* has made the file) and ret, what it returned.
\* The environment of a call: response, what curl does; raise_at, the
\* statement that raises when response.curl is "exception" (mkstemp, the
\* json.dump of the payload, or the subprocess); remove, whether os.remove
\* succeeds ("ok") or raises.

\* a plausible slip: the file is removed after curl's output was read, with
\* no finally clause
cleanup_after_read(temp_file, remove, leaving) ==
    IF leaving = "fallthrough" /\ temp_file = "present" /\ remove = "ok"
    THEN "absent" ELSE temp_file

\* lines 108-113: the finally clause, entered while leaving the try block by
\* falling through, by return or by an exception
cleanup(temp_file, remove, leaving) ==
    IF temp_file = "present" /\ remove = "ok" THEN "absent" ELSE temp_file

\* lines 62-93: from the call to the await of the subprocess
call_start(env) ==
    IF env.response.curl = "exception" /\ env.raise_at = "mkstemp"
    THEN [done |-> TRUE, pc |-> "returned", temp_file |-> "absent", created |-> FALSE,
          ret |-> trapped(Raised)]
    ELSE IF env.response.curl = "exception" /\ env.raise_at = "dump"
    THEN [done |-> TRUE, pc |-> "returned",
          temp_file |-> cleanup("present", env.remove, "raise"), created |-> TRUE,
          ret |-> trapped(Raised)]
    ELSE [done |-> FALSE, pc |-> "subprocess", temp_file |-> "present", created |-> TRUE,
          ret |-> None]

\* lines 93-224: from the end of the subprocess to the return
call_end(env, t) ==
    IF env.response.curl = "exception"
    THEN [t EXCEPT !.done = TRUE, !.pc = "returned",
                   !.temp_file = cleanup(t.temp_file, env.remove, "raise"),
                   !.ret = trapped(Raised)]
    ELSE IF env.response.curl = "failed"
    THEN [t EXCEPT !.done = TRUE, !.pc = "returned",
                   !.temp_file = cleanup(t.temp_file, env.remove, "return"),
                   !.ret = call_flow2api(env.response)]
    ELSE [t EXCEPT !.done = TRUE, !.pc = "returned",
                   !.temp_file = cleanup(t.temp_file, env.remove, "fallthrough"),
                   !.ret = call_flow2api(env.response)]

RaiseAt(resp) ==
    IF resp.curl = "exception" THEN {"mkstemp", "dump", "subprocess"} ELSE {"none"}
TempCalls(resp) ==
    {[fn |-> "temp_file", response |-> resp, raise_at |-> at, remove |-> remove] :
        at \in RaiseAt(resp), remove \in {"ok", "raises"}}

InitTemp ==
    /\ Elsewhere
    /\ \E resp \in ParseResponses : call_args \in TempCalls(resp)
    /\ call_result = NoCallResult

CallStart ==
    /\ call_args.fn = "temp_file"
    /\ call_result = NoCallResult
    /\ call_result' = call_start(call_args)
    /\ UNCHANGED <<self, downloaded_image, req, started, taken, used, perm_event,
                   perm_result, response, parsed, reparse_vars, normalizer_vars, call_args>>

SubprocessEnds ==
    /\ call_args.fn = "temp_file"
    /\ call_result # NoCallResult
    /\ ~call_result.done
    /\ call_result' = call_end(call_args, call_result)
    /\ UNCHANGED <<self, downloaded_image, req, started, taken, used, perm_event,
                   perm_result, response, parsed, reparse_vars, normalizer_vars, call_args>>

NextTemp == CallStart \/ SubprocessEnds

SpecTemp == InitTemp /\ [][NextTemp]_vars

----------------------------------------------------------------------------
(* main.py: _get_next_api called by concurrent invocations *)

MaxCallers == 3

\* The invocations that are about to take a token.  _get_next_api is a plain
\* function without an await, so on the event loop each call runs from its
\* read of the cursor to its write without another call in between; the
\* invocations reach it in any order.
CursorCallers == 1..MaxCallers

\* what a caller holds: the provider it asked for, the cursor position its
\* call read, and the token it was given
NotCalled == [api_type |-> "none", position |-> 0 - 1, token |-> None]

cursor(plugin, api_type) ==
    IF api_type = "openai" THEN plugin.openai_idx ELSE plugin.flow_idx
tokens_of(plugin, api_type) ==
    IF api_type = "openai" THEN plugin.openai_api_tokens ELSE plugin.flow_api_tokens

InitCursor ==
    /\ self \in {Plugin(<<>>, <<>>, ApiUrl, TokenList(a), ApiUrl, TokenList(b), ApiKey) :
                    a \in 0..MaxTokens, b \in 0..MaxTokens}
    /\ downloaded_image = "<no file>"
    /\ req = [r \in Reqs |-> IdleReq]
    /\ started = 0
    /\ taken = NoLog
    /\ used = NoLog
    /\ perm_event = NoEvent
    /\ perm_result = FALSE
    /\ response = CurlFailed
    /\ parsed = None
    /\ parses = <<>>
    /\ left_over = <<>>
    /\ core_args = NoArgs
    /\ core_result = NoResult
    /\ call_args = [fn |-> "_get_next_api"]
    /\ call_result = [done |-> FALSE, got |-> [c \in CursorCallers |-> NotCalled]]

\* caller c calls self._get_next_api(api_type)
TakeToken(c, api_type) ==
    /\ call_args.fn = "_get_next_api"
    /\ call_result.got[c] = NotCalled
    /\ LET api == _get_next_api(self, api_type)
       IN /\ self' = api.plugin
          /\ taken' = Logged(taken, api_type, api.token)
          /\ call_result' =
                [call_result EXCEPT !.got[c] = [api_type |-> api_type,
                                                position |-> cursor(self, api_type),
                                                token |-> api.token],
                                    !.done = \A d \in CursorCallers \ {c} :
                                                call_result.got[d] # NotCalled]
    /\ UNCHANGED <<downloaded_image, req, started, used, perm_event, perm_result,
                   response, parsed, reparse_vars, normalizer_vars, call_args>>

NextCursor == \E c \in CursorCallers, api_type \in {"openai", "flow"} : TakeToken(c, api_type)

SpecCursor == InitCursor /\ [][NextCursor]_vars

----------------------------------------------------------------------------
(* main.py: the model the two video entry points choose *)

\* lines 352-359: veo_gen
veo_gen_model(input_images_b64) ==
    IF Len(input_images_b64) >= 1 THEN "veo_3_1_i2v_s_fast_fl" ELSE "veo_3_1_t2v_fast"

\* lines 500-509: cmd_gen_video
cmd_gen_video_model(input_images_b64) ==
    IF Len(input_images_b64) = 2 THEN "veo_3_1_i2v_s_fast_fl"
    ELSE IF Len(input_images_b64) = 1 THEN "veo_3_1_i2v_s_fast_fl"
    ELSE "veo_3_1_t2v_fast"

\* lines 356 and 484: the images the entry point extracts; only veo_gen can
\* ask for the avatar of the sender
video_images(entry, event, ignore_at_qq_list, use_sender_avatar) ==
    _get_event_images(event, ignore_at_qq_list,
                      IF entry = "veo_gen" THEN use_sender_avatar ELSE FALSE)

\* the invocations of a video entry point that passed the gate and have a
\* Flow endpoint
VideoCalls(entry, n) ==
    {[fn |-> "video_model", entry |-> entry, event |-> event,
      ignore_at_qq_list |-> ignore, use_sender_avatar |-> avatar] :
        event \in ImageEvents(n), ignore \in IgnoreLists,
        avatar \in IF entry = "veo_gen" THEN BOOLEAN ELSE {FALSE}}

InitVideoModel ==
    /\ Elsewhere
    /\ \E entry \in VideoEntries : call_args \in VideoCalls(entry, MaxComps)
    /\ call_result = NoCallResult

\* the entry point from the image extraction to its call of generate_video:
\* the images and the model it passes
ChooseVideoModel ==
    /\ call_args.fn = "video_model"
    /\ ~call_result.done
    /\ LET input_images_b64 == video_images(call_args.entry, call_args.event,
                                            call_args.ignore_at_qq_list,
                                            call_args.use_sender_avatar)
       IN call_result' = [done |-> TRUE,
                          input_images_b64 |-> input_images_b64,
                          model |-> IF call_args.entry = "veo_gen"
                                    THEN veo_gen_model(input_images_b64)
                                    ELSE cmd_gen_video_model(input_images_b64)]
    /\ UNCHANGED <<self, downloaded_image, req, started, taken, used, perm_event,
                   perm_result, response, parsed, reparse_vars, normalizer_vars, call_args>>

SpecVideoModel == InitVideoModel /\ [][ChooseVideoModel]_vars

----------------------------------------------------------------------------
(* The claims *)

\* the gate's verdict on the event of the invocation in slot r
Denied(r) == req[r].entry \in Entries /\ ~_check_permission(self, req[r].event)

\* C1: in an invocation whose event the permission gate denies, no image
\* extraction, no advance of a token cursor and no provider call happens,
\* whichever command or tool was invoked.
C1_GateBeforeAnything ==
    \A r \in Reqs :
        Denied(r) => /\ req[r].pc # "extract"
                     /\ ~req[r].extracted
                     /\ ~req[r].advanced
                     /\ req[r].calls = <<>>

\* C2: _check_permission returns true exactly when both whitelists are
\* empty, or str(user id) is among the strings of the user whitelist, or
\* str(group id) is among the strings of the group whitelist; and the call
\* leaves the plugin object as it was.
C2_Allowed ==
    \/ self.user_white_list = <<>> /\ self.group_white_list = <<>>
    \/ \E i \in DOMAIN self.user_white_list :
          self.user_white_list[i].s = perm_event.user_id.s
    \/ \E i \in DOMAIN self.group_white_list :
          self.group_white_list[i].s = perm_event.group_id.s
C2_PermissionExact ==
    /\ [](perm_event # NoEvent => (perm_result <=> C2_Allowed))
    /\ [][self' = self]_vars

\* C2 witness: a sender outside the user whitelist is let in through the
\* group whitelist, where the group id is an int in the event and a str in
\* the configuration
C2_Witness ==
    /\ perm_result
    /\ self.user_white_list # <<>>
    /\ \A i \in DOMAIN self.user_white_list :
          self.user_white_list[i].s # perm_event.user_id.s
    /\ perm_event.group_id.t = "int"
    /\ \E i \in DOMAIN self.group_white_list :
          /\ self.group_white_list[i].s = perm_event.group_id.s
          /\ self.group_white_list[i].t = "str"
    /\ perm_event.group_id \notin Range(self.group_white_list)

\* the tuple a finished call of generate_image returned
Returned(r) == req[r].entry = "generate_image" /\ req[r].pc = "returned"

\* C3 as stated: for every return of generate_image, on reported success
\* (a source is named) exactly one of URL and path is non-null, and on
\* reported failure both are null.
C3_ExactlyOneOrNone ==
    \A r \in Reqs :
        Returned(r) =>
            IF req[r].ret.source # None
            THEN (req[r].ret.url # None) # (req[r].ret.path # None)
            ELSE req[r].ret.url = None /\ req[r].ret.path = None

\* C3 amended: for every return of generate_image the second slot is never
\* null; on reported success it does not start with "Error:", and a URL, when
\* there is one, comes together with the path of the downloaded file; on
\* reported failure the URL is null and the second slot is a message that
\* starts with "Error:".
C3_PathSlotAlwaysSet ==
    \A r \in Reqs :
        Returned(r) =>
            /\ Truthy(req[r].ret.path)
            /\ IF req[r].ret.source # None
               THEN /\ ~StartsWith(req[r].ret.path, <<"Error:">>)
                    /\ req[r].ret.url # None => req[r].ret.path = ImagePath
               ELSE /\ req[r].ret.url = None
                    /\ StartsWith(req[r].ret.path, <<"Error:">>)

\* C3 witness: a success that returns the URL and the local path together
C3_Witness ==
    \E r \in Reqs :
        /\ Returned(r)
        /\ req[r].ret.source # None
        /\ Truthy(req[r].ret.url)
        /\ req[r].ret.path = ImagePath

\* C4: in a call of generate_image with provider 'openai' or 'flow' the
\* official Gemini endpoint is never requested, whatever the endpoint URL
\* and whatever the requested provider answers.
C4_NoFallbackWhenExplicit ==
    \A r \in Reqs :
        req[r].provider \in {"openai", "flow"} => "gemini" \notin Range(req[r].calls)

\* a call of generate_image with no provider named and a Flow endpoint given
DefaultWithFlow(r) ==
    /\ req[r].entry = "generate_image"
    /\ req[r].provider = "<None>"
    /\ Truthy(req[r].flow_api_url)

\* C5: with the provider unspecified and a Flow endpoint configured, the
\* first request of generate_image goes to Flow2API; the official endpoint
\* is requested only as the second, after the Flow2API attempt has failed
\* (flow_error is set); and a result that names Flow2API as its source was
\* returned without a request to the official endpoint.
C5_FlowFirstThenOfficial ==
    \A r \in Reqs :
        DefaultWithFlow(r) =>
            /\ req[r].calls # <<>>
            /\ req[r].calls[1] = "flow"
            /\ req[r].pc \in {"flow_call", "flow_download"} => req[r].calls = <<"flow">>
            /\ "gemini" \in Range(req[r].calls) =>
                  req[r].calls = <<"flow", "gemini">> /\ Truthy(req[r].flow_error)
            /\ req[r].pc = "returned" /\ req[r].ret.source = <<"Flow2API">> =>
                  req[r].calls = <<"flow">>

\* C5 witness: Flow2API failed and the official endpoint produced the result
C5_Witness ==
    \E r \in Reqs :
        /\ DefaultWithFlow(r)
        /\ req[r].pc = "returned"
        /\ req[r].calls = <<"flow", "gemini">>
        /\ req[r].ret.source = <<"Google Gemini">>

\* the endpoint a source description names
EndpointOf(source) ==
    IF source = <<"OpenAI API">> THEN "openai"
    ELSE IF source = <<"Flow2API">> THEN "flow"
    ELSE "gemini"

\* C6: within one call of generate_image no endpoint is requested twice,
\* and a successful return names the endpoint requested last: nothing is
\* requested after a success, and a failed attempt is not repeated.
C6_EachProviderOnce ==
    \A r \in Reqs :
        /\ \A i, j \in DOMAIN req[r].calls : req[r].calls[i] = req[r].calls[j] => i = j
        /\ req[r].downloads <= 1
        /\ req[r].pc = "returned" /\ req[r].ret.source # None =>
              /\ req[r].calls # <<>>
              /\ req[r].calls[Len(req[r].calls)] = EndpointOf(req[r].ret.source)

\* C6 witness: both attempts of a call failed, and each was made once
C6_Witness ==
    \E r \in Reqs :
        /\ req[r].pc = "returned"
        /\ req[r].ret.source = None
        /\ req[r].calls = <<"flow", "gemini">>

\* C7: generate_image never raises.
C7_NeverRaises == \A r \in Reqs : req[r].pc # "raised"

\* the round-robin sequence: entry k of log (k = 1, 2, ...) is token
\* number (k - 1) mod n of tokens
RoundRobin(log, tokens) ==
    \A k \in DOMAIN log : log[k] = tokens[((k - 1) % Len(tokens)) + 1]

C9_OwnMedia ==
    \A r \in Reqs : req[r].delivered \in Media => req[r].delivered = r

\* call_flow2api has been applied to a JSON body whose
\* choices[0].message.images is not empty and ends with an entry with a URL
HasImages ==
    /\ parsed # None
    /\ response.curl = "ok"
    /\ response.body.fmt = "json"
    /\ "choices" \in response.body.keys
    /\ Len(response.body.choices) > 0
    /\ response.body.choices[1].message.images # <<>>
    /\ LET images == response.body.choices[1].message.images
       IN Truthy(images[Len(images)].url)

\* the URL of the last entry of choices[0].message.images
LastUrl ==
    LET images == response.body.choices[1].message.images
    IN images[Len(images)].url

\* C10 as stated: for a JSON response whose choices[0].message.images is
\* not empty and whose last entry has a URL, call_flow2api returns that URL.
C10_LastImage == HasImages => parsed = LastUrl

\* C10 amended: for such a response that has no top-level error key,
\* call_flow2api returns the URL of the last entry.
C10_LastImageNoError ==
    HasImages /\ "error" \notin response.body.keys => parsed = LastUrl

\* C10 witness: two entries with different URLs, the second one returned
C10_Witness ==
    /\ HasImages
    /\ "error" \notin response.body.keys
    /\ Len(response.body.choices[1].message.images) = 2
    /\ Truthy(response.body.choices[1].message.images[1].url)
    /\ response.body.choices[1].message.images[1].url # LastUrl
    /\ parsed = LastUrl

----------------------------------------------------------------------------
(* C11..C15: what call_flow2api makes of a body *)

Body == response.body
Answered == parsed # None /\ response.curl = "ok"
LastOf(images) == images[Len(images)].url
DataLines == {i \in DOMAIN Body.lines : Body.lines[i].type = "data"}
HasMessage ==
    Body.fmt = "json" /\ "choices" \in Body.keys /\ Len(Body.choices) > 0

\* the images lists the body carries: that of the JSON message, those of the
\* SSE deltas
ImagesLists ==
    (IF HasMessage THEN {Body.choices[1].message.images} ELSE {})
    \cup {Body.lines[i].delta.images : i \in DataLines}
\* the URLs of their last entries
CarriedUrls ==
    {LastOf(images) : images \in {l \in ImagesLists : l # <<>> /\ Truthy(LastOf(l))}}
\* every URL that stands in an images field
ImagesFieldUrls ==
    UNION {{images[k].url : k \in DOMAIN images} : images \in ImagesLists} \ {None}

\* every data: line holds JSON of the expected shape, and so does the body
WellShaped ==
    /\ Body.fmt # "misshapen"
    /\ \A i \in DOMAIN Body.lines : Body.lines[i].type # "misshapen"
NoErrorKey == "error" \notin Body.keys

\* C11 as stated: whenever the JSON message or an SSE delta carries an
\* images list whose last entry has a URL, call_flow2api returns a URL that
\* stands in an images field, never one of the text.
C11_ImagesWin == Answered /\ CarriedUrls # {} => parsed \in ImagesFieldUrls

\* C11 amended: the same for a response that has no top-level error key and
\* whose data: lines all hold JSON of the expected shape.
C11_ImagesWinWellShaped ==
    Answered /\ CarriedUrls # {} /\ NoErrorKey /\ WellShaped => parsed \in ImagesFieldUrls

\* C11 witness: a Markdown image link in the first chunk, an image in the
\* second, the image returned
C11_Witness ==
    /\ Answered
    /\ Body.fmt = "text"
    /\ Len(Body.lines) = 2
    /\ Body.lines[1] = DataLine(MdLink(<<Http, "://txt/x">>), <<>>, <<>>)
    /\ Body.lines[2].type = "data"
    /\ Body.lines[2].delta.images # <<>>
    /\ parsed = LastOf(Body.lines[2].delta.images)
    /\ parsed # None

\* the chunks whose images list ends with an entry that has a URL
ImageChunks ==
    {i \in DataLines : /\ Body.lines[i].delta.images # <<>>
                       /\ Truthy(LastOf(Body.lines[i].delta.images))}
FirstChunk == CHOOSE i \in ImageChunks : \A j \in ImageChunks : i <= j
LastChunk == CHOOSE i \in ImageChunks : \A j \in ImageChunks : i >= j
Streamed == Answered /\ Body.fmt = "text"

\* C12 as stated: when more than one data: chunk carries images, the result
\* is the last entry of the last chunk that carries images.
C12_LastChunkWins ==
    Streamed /\ Cardinality(ImageChunks) > 1
        => parsed = LastOf(Body.lines[LastChunk].delta.images)

\* C12 amended: when more than one data: chunk carries images, the result is
\* the last entry of the first chunk that carries images, if no line before
\* that chunk holds JSON of another shape.
C12_FirstChunkWins ==
    /\ Streamed
    /\ Cardinality(ImageChunks) > 1
    /\ \A i \in 1..FirstChunk : Body.lines[i].type # "misshapen"
    => parsed = LastOf(Body.lines[FirstChunk].delta.images)

\* C12 witness: two chunks with images that end in different URLs, the first
\* chunk's returned
C12_Witness ==
    /\ Streamed
    /\ Cardinality(ImageChunks) > 1
    /\ LastOf(Body.lines[FirstChunk].delta.images)
           # LastOf(Body.lines[LastChunk].delta.images)
    /\ parsed = LastOf(Body.lines[FirstChunk].delta.images)

\* the contents of the data: lines, one after the other
RECURSIVE Concatenated(_)
Concatenated(lines) ==
    IF lines = <<>> THEN <<>>
    ELSE (IF Head(lines).type = "data" /\ Truthy(Head(lines).delta.content)
          THEN Head(lines).delta.content ELSE <<>>) \o Concatenated(Tail(lines))

\* no chunk has a reasoning_content that holds a failure marker
NoReasoningError ==
    \A i \in DataLines :
        \A k \in DOMAIN Body.lines[i].delta.reasoning :
            Body.lines[i].delta.reasoning[k] \notin FailureMarkers

\* an SSE response without any images field
TextOnly == Streamed /\ \A i \in DataLines : Body.lines[i].delta.images = <<>>

\* the text of the three expressions of lines 198-208
ByKind(t) ==
    IF md_match(t) # None THEN md_match(t)
    ELSE IF video_match(t) # None THEN video_match(t)
    ELSE url_match(t)

\* C13 as stated: for an SSE response with no images field, the URL found in
\* the concatenation of the contents of the data: lines is returned; a
\* Markdown image link, whole or split over chunks, is returned as its URL.
C13_Concatenation ==
    TextOnly /\ ByKind(Concatenated(Body.lines)) # None
        => parsed = ByKind(Concatenated(Body.lines))

\* C13 amended: the same when every data: line holds JSON of the expected
\* shape and no reasoning_content holds a failure marker.
C13_ConcatenationOfContentOnly ==
    /\ TextOnly
    /\ WellShaped
    /\ NoReasoningError
    /\ ByKind(Concatenated(Body.lines)) # None
    => parsed = ByKind(Concatenated(Body.lines))

\* C13 witness: a Markdown image link split over two chunks, its URL returned
C13_Witness ==
    /\ TextOnly
    /\ Len(Body.lines) = 2
    /\ Body.lines[1] = DataLine(LinkHead, <<>>, <<>>)
    /\ Body.lines[2] = DataLine(LinkTail, <<>>, <<>>)
    /\ parsed = <<Http, "://txt/x">>

\* the text call_flow2api has accumulated when nothing but content adds to it
Accumulated ==
    IF HasMessage /\ Truthy(Body.choices[1].message.content)
    THEN Body.choices[1].message.content
    ELSE Concatenated(Body.lines)
\* a URL of a top-level data list is returned
DataUrl ==
    /\ Body.fmt = "json"
    /\ ~HasMessage
    /\ "data" \in Body.keys
    /\ Len(Body.data) > 0
    /\ Truthy(Body.data[1].url)
\* the result depends on the accumulated text alone
TextDecides ==
    /\ Answered
    /\ NoErrorKey
    /\ WellShaped
    /\ NoReasoningError
    /\ CarriedUrls = {}
    /\ ~DataUrl

\* C14: when the accumulated text holds a URL, the result is the URL of the
\* first Markdown image link if there is one, otherwise the src of the first
\* video tag if there is one, otherwise the first bare URL, wherever they
\* stand in the text.
C14_ByKindNotPosition ==
    TextDecides /\ ByKind(Accumulated) # None
        => parsed = (IF md_match(Accumulated) # None THEN md_match(Accumulated)
                     ELSE IF video_match(Accumulated) # None THEN video_match(Accumulated)
                     ELSE url_match(Accumulated))

\* C14 witness: a bare URL, then a video tag, then a Markdown image link in
\* the text; the link's URL returned
C14_Witness ==
    /\ TextDecides
    /\ Accumulated = ThreeKinds
    /\ url_match(Accumulated) = <<Http, "://media/A">>
    /\ video_match(Accumulated) = <<Http, "://vid/1.mp4">>
    /\ parsed = <<Http, "://txt/x">>

EmptyBody == Body = TextBody(<<>>)
NoText == Accumulated = <<>> /\ NoReasoningError
\* a string is returned, the body is empty, or a text without URL
C15_Common ==
    /\ parsed # Raised
    /\ response.curl = "ok" /\ parsed # None /\ EmptyBody
           => parsed = <<"Empty response from Flow2API">>
    /\ TextDecides /\ Accumulated # <<>> /\ ByKind(Accumulated) = None
           => parsed = <<"No URL found in response. Model Output: ">> \o Accumulated

----------------------------------------------------------------------------
(* C16: repeated parses *)

\* C16: any two calls of call_flow2api with the same response return the
\* same result, whatever was parsed before or between them.
C16_SameBodySameResult ==
    \A i \in DOMAIN parses : \A j \in DOMAIN parses :
        parses[i].response = parses[j].response => parses[i].result = parses[j].result

\* C16 witness: a body without text parsed before and after a body that left
\* a text behind, with the same result
C16_Witness ==
    /\ Len(parses) = 3
    /\ parses[1].response = CurlOk(TextBody(<<Line("other")>>))
    /\ parses[2].response = CurlOk(TextBody(<<DataLine(<<"a cat">>, <<>>, <<>>)>>))
    /\ parses[3].response = parses[1].response
    /\ parses[2].result = <<"No URL found in response. Model Output: ", "a cat">>
    /\ parses[3].result = <<"API Error: ", "<response_text>">>

----------------------------------------------------------------------------
(* C17..C20: the parameters _generate_core reads from the prompt *)

Normalized == core_result.done
ArTokens == {"--ar", "--AR"}
\* the tokens that begin with the letter, in either case
Starting(letter) ==
    IF letter = "l" THEN {"l", "L", "landscape"} ELSE {"p", "P", "portrait"}
\* the prompt contains "--ar l" (or "--ar p") in some letter case
HasShorthand(prompt, letter) ==
    \E i \in 1..Len(prompt) - 2 :
        prompt[i] \in ArTokens /\ prompt[i + 1] = Space /\ prompt[i + 2] \in Starting(letter)
\* the prompt without the directive
RECURSIVE Without(_, _)
Without(prompt, letter) ==
    IF Len(prompt) < 3 THEN prompt
    ELSE IF prompt[1] \in ArTokens /\ prompt[2] \in {Space, Wide}
            /\ prompt[3] \in Starting(letter)
    THEN (IF prompt[3] = "landscape" THEN <<"andscape">>
          ELSE IF prompt[3] = "portrait" THEN <<"ortrait">> ELSE <<>>)
         \o Without(SubSeq(prompt, 4, Len(prompt)), letter)
    ELSE <<Head(prompt)>> \o Without(Tail(prompt), letter)
\* the prompt without the white space around it
RECURSIVE Trimmed(_)
Trimmed(prompt) ==
    IF prompt # <<>> /\ Head(prompt) \in {Space, Wide} THEN Trimmed(Tail(prompt))
    ELSE IF prompt # <<>> /\ prompt[Len(prompt)] \in {Space, Wide}
    THEN Trimmed(SubSeq(prompt, 1, Len(prompt) - 1))
    ELSE prompt
\* the call gave the aspect ratio word and the prompt without the directive
FlowGives(letter, word) ==
    /\ core_result.aspect_ratio = word
    /\ core_result.prompt = Trimmed(Without(core_args.prompt, letter))
FlowCall == Normalized /\ core_args.provider = "flow"

\* C17 as stated: with the flow provider a prompt that contains --ar p
\* (--ar l) in any letter case gives the aspect ratio portrait (landscape)
\* and the prompt without the directive, trimmed.
C17_FlowShorthand ==
    FlowCall =>
        /\ HasShorthand(core_args.prompt, "p") => FlowGives("p", "portrait")
        /\ HasShorthand(core_args.prompt, "l") => FlowGives("l", "landscape")

\* C17 amended: --ar l gives landscape and is removed; --ar p gives portrait
\* and is removed when the prompt does not contain --ar l as well.
C17_FlowShorthandLandscapeFirst ==
    FlowCall =>
        /\ HasShorthand(core_args.prompt, "p") /\ ~HasShorthand(core_args.prompt, "l")
               => FlowGives("p", "portrait")
        /\ HasShorthand(core_args.prompt, "l") => FlowGives("l", "landscape")

\* C17 witness: "a cat --AR P" gives portrait and "a cat"
C17_Witness ==
    /\ FlowCall
    /\ core_args.prompt = <<"a cat", Space, "--AR", Space, "P">>
    /\ core_result.aspect_ratio = "portrait"
    /\ core_result.prompt = <<"a cat">>

\* the orientation a flow request carries for an aspect ratio
Orientation(aspect_ratio) ==
    IF aspect_ratio \in {"portrait", "2:3", "3:4", "4:5", "9:16"}
    THEN "portrait" ELSE "landscape"

\* C18 as stated: for every provider an aspect_ratio or resolution argument
\* passed to _generate_core is the value the provider request is built with,
\* whatever directive the prompt contains.  (A flow request carries the
\* orientation of the aspect ratio and no resolution; a request for a flash
\* model of the official provider carries no resolution.)
C18_ArgumentWins ==
    Normalized =>
        /\ core_args.aspect_ratio # NoValue =>
               /\ core_result.aspect_ratio = core_args.aspect_ratio
               /\ core_result.request.aspect =
                      (IF core_args.provider = "flow"
                       THEN Orientation(core_args.aspect_ratio)
                       ELSE core_args.aspect_ratio)
        /\ core_args.resolution # NoValue =>
               /\ core_result.resolution = core_args.resolution
               /\ core_args.provider # "flow" /\ core_args.model # "flash"
                      => core_result.request.size = core_args.resolution

\* the call is one of the two providers with a command group
GroupCall ==
    /\ Normalized
    /\ core_args.provider \in {"openai", "official"}
    /\ core_args.config_group # NoValue

\* a resolution of a request as an allow-list spells it
ResName(size) ==
    CASE size = "1K" -> "1k"
      [] size = "2K" -> "2k"
      [] size = "4K" -> "4k"
      [] OTHER -> size

\* C19 as stated: for the OpenAI-compatible and official providers an aspect
\* ratio or resolution that is in the request because of the prompt is in
\* the group's allow-list (or is one of the three words), and the group's
\* enable flag is on.
C19_OnlyPermitted ==
    GroupCall =>
        /\ core_args.aspect_ratio = NoValue
           /\ core_result.request.aspect \notin {NoValue, "1:1"}
               => /\ core_args.config.enable_ar
                  /\ core_result.request.aspect \in core_args.config.allowed_ars \cup ArWords
        /\ core_args.resolution = NoValue /\ core_result.request.size # NoValue
               => /\ core_args.config.enable_res
                  /\ ResName(core_result.request.size) \in core_args.config.allowed_res

\* the prompt has --ar followed by a value of the allow-list or by a word
AllowListForm ==
    \E i \in 1..Len(core_args.prompt) - 2 :
        /\ core_args.prompt[i] \in ArTokens
        /\ core_args.prompt[i + 1] \in {Space, Wide}
        /\ core_args.prompt[i + 2] \in core_args.config.allowed_ars \cup ArWords
\* the shorthand is what the group branch goes by
ShorthandCall ==
    /\ GroupCall
    /\ core_args.config.enable_ar
    /\ core_args.aspect_ratio = NoValue
    /\ ~AllowListForm

\* C20 as stated: --ar l / --ar p gives landscape / portrait with the flow
\* provider, and 16:9 / 9:16 with the other two providers when aspect-ratio
\* directives are enabled, no argument was passed and the prompt has no
\* allow-list form.
C20_ShorthandPerProvider ==
    /\ FlowCall =>
           /\ HasShorthand(core_args.prompt, "l") => core_result.aspect_ratio = "landscape"
           /\ HasShorthand(core_args.prompt, "p") => core_result.aspect_ratio = "portrait"
    /\ ShorthandCall =>
           /\ HasShorthand(core_args.prompt, "l") => core_result.aspect_ratio = "16:9"
           /\ HasShorthand(core_args.prompt, "p") => core_result.aspect_ratio = "9:16"

\* C20 amended: the same, --ar p counting only in a prompt that does not
\* contain --ar l as well.
C20_ShorthandPerProviderLandscapeFirst ==
    /\ FlowCall =>
           /\ HasShorthand(core_args.prompt, "l") => core_result.aspect_ratio = "landscape"
           /\ HasShorthand(core_args.prompt, "p") /\ ~HasShorthand(core_args.prompt, "l")
                  => core_result.aspect_ratio = "portrait"
    /\ ShorthandCall =>
           /\ HasShorthand(core_args.prompt, "l") => core_result.aspect_ratio = "16:9"
           /\ HasShorthand(core_args.prompt, "p") /\ ~HasShorthand(core_args.prompt, "l")
                  => core_result.aspect_ratio = "9:16"

\* C20 witness: "a cat --ar p" for the official provider gives 9:16, in the
\* parameters and in the request
C20_Witness ==
    /\ ShorthandCall
    /\ core_args.provider = "official"
    /\ core_args.prompt = <<"a cat", Space, "--ar", Space, "p">>
    /\ core_result.aspect_ratio = "9:16"
    /\ core_result.request.aspect = "9:16"
    /\ core_result.prompt = <<"a cat">>

----------------------------------------------------------------------------
(* C21: the orientation suffix of the model name *)

Suffixed == call_result.done /\ call_args.fn \in {"generate_image", "generate_video"}
Separator == IF call_args.fn = "generate_image" THEN "-" ELSE "_"
\* the name carries a suffix of its kind already
CarriesSuffix ==
    \E i \in DOMAIN call_args.model :
        call_args.model[i] \in (IF call_args.fn = "generate_image"
                                THEN {"-landscape", "-portrait", "-square"}
                                ELSE {"_landscape", "_portrait"})
\* the aspect ratio, or without one the size, is taller than wide
TallerThanWide ==
    IF call_args.aspect_ratio \notin {NoValue, ""}
    THEN call_args.aspect_ratio \in {"p", "P", "portrait", "9:16", "3:4"}
    ELSE call_args.image_size = "768x1024"
\* the name without a trailing -preview
Stem ==
    IF call_args.model[Len(call_args.model)] = "-preview"
    THEN SubSeq(call_args.model, 1, Len(call_args.model) - 1) ELSE call_args.model

\* C21: a name without a suffix gets the separator and "portrait" exactly
\* when the aspect ratio (without one, the size) is taller than wide, and
\* the separator and "landscape" otherwise; a name with a suffix gets none;
\* the separator is - for images and _ for videos.
C21_OrientationSuffix ==
    Suffixed =>
        /\ call_result.flow_model # <<>>
        /\ ~CarriesSuffix =>
               /\ call_result.flow_model[Len(call_result.flow_model)] =
                      (IF Separator = "-"
                       THEN (IF TallerThanWide THEN "-portrait" ELSE "-landscape")
                       ELSE (IF TallerThanWide THEN "_portrait" ELSE "_landscape"))
               /\ SubSeq(call_result.flow_model, 1, Len(call_result.flow_model) - 1)
                      \in {call_args.model, Stem}
        /\ CarriesSuffix => call_result.flow_model \in {call_args.model, Stem}

\* C21 witness: a square aspect ratio and a tall size give -landscape
C21_Witness ==
    /\ Suffixed
    /\ call_args.fn = "generate_image"
    /\ call_args.aspect_ratio = "1:1"
    /\ call_args.image_size = "768x1024"
    /\ call_args.model = <<"flux">>
    /\ call_result.flow_model = <<"flux", "-landscape">>

----------------------------------------------------------------------------
(* C22: missing configuration *)

\* the invocation in slot r has made no provider request and has no result
NothingAttempted(r) ==
    /\ req[r].calls = <<>>
    /\ req[r].downloads = 0
    /\ req[r].pc \in {"extract", "done"}
    /\ ~req[r].success
    /\ req[r].chain = NoChain
\* the URL configured for the provider of an image handler
ConfiguredUrl(entry) ==
    IF provider_of(entry) = "openai" THEN self.openai_api_url ELSE self.flow_api_url

\* C22: an invocation that needs a configuration value that is missing (the
\* Flow2API URL for a video, the provider's URL for an OpenAI-compatible or
\* Flow2API image, the API key for the official provider) starts no provider
\* request and ends without a result.
C22_MissingConfiguration ==
    \A r \in Reqs :
        /\ req[r].entry \in VideoEntries /\ ~Truthy(self.flow_api_url)
               => NothingAttempted(r)
        /\ req[r].entry \in ImageCommands \cup ImageTools
           /\ provider_of(req[r].entry) \in {"openai", "flow"}
           /\ ~Truthy(ConfiguredUrl(req[r].entry))
               => NothingAttempted(r)
        /\ req[r].entry \in ImageCommands \cup ImageTools
           /\ provider_of(req[r].entry) = "official"
           /\ ~Truthy(self.google_api_key)
               => NothingAttempted(r)

\* C22 witness: an image asked of the official provider without a key and
\* another asked of the OpenAI-compatible provider without a URL have both
\* ended after the image extraction
C22_Witness ==
    /\ ~Truthy(self.google_api_key)
    /\ ~Truthy(self.openai_api_url)
    /\ req["A"].entry = "nano_gen"
    /\ req["A"].extracted
    /\ req["A"].pc = "done"
    /\ req["B"].entry = "pic_gen"
    /\ req["B"].extracted
    /\ req["B"].pc = "done"
    /\ NothingAttempted("A")
    /\ NothingAttempted("B")

----------------------------------------------------------------------------
(* C23: the download of a media URL *)

\* the flow_error texts of lines 325-327 and 437-439
NamesDownloadFailure(e) ==
    \E i \in DOMAIN e :
        e[i] \in {" download exception: ", " generated URL but download failed: "}

\* message m quotes flow_error e
Quotes(m, e) ==
    \E i \in 0..Len(m) - Len(e) : SubSeq(m, i + 1, i + Len(e)) = e

\* a call of generate_image that obtained a media URL and has returned
DownloadedAndReturned(r) == Returned(r) /\ req[r].downloads >= 1

\* C23 as stated: a call of generate_image that obtained a media URL
\* downloads it exactly once and returns either the URL with the written
\* local file, or a failure whose message names the download failure.
C23_DownloadOnce ==
    \A r \in Reqs :
        /\ req[r].entry = "generate_image" => req[r].downloads <= 1
        /\ DownloadedAndReturned(r) =>
              \/ /\ req[r].ret.url = req[r].image_url
                 /\ req[r].ret.path = ImagePath
                 /\ req[r].wrote = MediaAt(req[r].image_url)
              \/ /\ req[r].ret.source = None
                 /\ req[r].ret.url = None
                 /\ NamesDownloadFailure(req[r].ret.path)

\* C23 amended: a branch of generate_image that obtained a media URL
\* downloads it exactly once. A result that names that branch as its source
\* carries the URL and the path of the file written from it. Otherwise the
\* download failed, flow_error names the download failure, and nothing is
\* downloaded again: with the provider given as 'openai' or 'flow' the
\* result is a failure that quotes flow_error; with the provider left
\* unspecified the official endpoint is requested next and the result is
\* its outcome, which quotes flow_error when the Google key is missing.
C23_DownloadOncePerBranch ==
    \A r \in Reqs :
        /\ req[r].entry = "generate_image" => req[r].downloads <= 1
        /\ req[r].pc \in {"openai_download", "flow_download"} =>
              req[r].downloads = 1 /\ Truthy(req[r].image_url)
        /\ DownloadedAndReturned(r) =>
              IF req[r].ret.source \in {<<"OpenAI API">>, <<"Flow2API">>}
              THEN /\ req[r].ret.url = req[r].image_url
                   /\ req[r].ret.path = ImagePath
                   /\ req[r].wrote = MediaAt(req[r].image_url)
              ELSE /\ NamesDownloadFailure(req[r].flow_error)
                   /\ req[r].provider \in {"openai", "flow"} =>
                         /\ req[r].ret.source = None
                         /\ req[r].ret.url = None
                         /\ StartsWith(req[r].ret.path, <<"Error:">>)
                         /\ Quotes(req[r].ret.path, req[r].flow_error)
                         /\ "gemini" \notin Range(req[r].calls)
                   /\ req[r].provider \notin {"openai", "flow"} =>
                         /\ req[r].calls = <<"flow", "gemini">> \/ ~Truthy(req[r].google_api_key)
                         /\ ~Truthy(req[r].google_api_key) =>
                               /\ req[r].ret.source = None
                               /\ Quotes(req[r].ret.path, req[r].flow_error)

\* C23 witness: the download of an obtained URL failed with a status and the
\* call returned the failure that names it
C23_Witness ==
    \E r \in Reqs :
        /\ DownloadedAndReturned(r)
        /\ req[r].provider = "flow"
        /\ req[r].ret.source = None
        /\ req[r].ret.path = <<"Error:", " Flow2API failed (", "Flow2API",
                               " generated URL but download failed: ", "404", ")">>

----------------------------------------------------------------------------
(* C24: the order of the extracted images *)

ImagesCall == call_args.fn = "_get_event_images" /\ call_result.done

\* the outcomes of the conversions of chain, in order
Outs(chain) == [i \in DOMAIN chain |-> chain[i].out]
Converted(comp) == comp.kind = "Image" /\ comp.out # Raises
ConvertedImages(chain) == Outs(SelectSeq(chain, Converted))

Quoting(comp) == comp.kind = "Reply"
RECURSIVE Flatten(_)
Flatten(chains) ==
    IF chains = <<>> THEN <<>> ELSE Head(chains).chain \o Flatten(Tail(chains))
QuotedImages(message) == ConvertedImages(Flatten(SelectSeq(message, Quoting)))

Fetched(comp) ==
    /\ comp.kind = "At"
    /\ comp.qq.s \notin {x.s : x \in Range(call_args.ignore_at_qq_list)}
    /\ comp.out \notin {Raises, ""}
MentionAvatars(message) == Outs(SelectSeq(message, Fetched))

SenderAvatar(event) ==
    IF call_args.include_sender_avatar /\ event.has_message_obj
       /\ TruthyId(event.sender_id) /\ event.sender_out \notin {Raises, ""}
    THEN <<event.sender_out>> ELSE <<>>

\* C24: the list _get_event_images returns is the images of the current
\* message whose conversion did not raise, then those of the quoted
\* messages, then the avatars that could be fetched of the mentioned users
\* whose id is not in the ignore list, in mention order, then the avatar of
\* the sender when it was requested and could be fetched; nothing else is in
\* the list and nothing is reordered.
C24_FixedOrder ==
    ImagesCall =>
        call_result.images =
            ConvertedImages(call_args.event.message)
                \o QuotedImages(call_args.event.message)
                \o MentionAvatars(call_args.event.message)
                \o SenderAvatar(call_args.event)

\* C24 witness: a message with a quoted image after a failed one, a mention,
\* and an image of its own placed last; the sender avatar is requested
C24_Witness ==
    /\ ImagesCall
    /\ call_args.event.message =
          <<ReplyComp(<<ImageComp(Raises), AtComp(IntId("101"), "a101"), ImageComp("r2")>>),
            AtComp(IntId("202"), "a202"), ImageComp("i1")>>
    /\ call_args.ignore_at_qq_list = <<IntId("101")>>
    /\ call_args.include_sender_avatar
    /\ call_result.images = <<"i1", "r2", "a202", "s303">>

----------------------------------------------------------------------------
(* C25: the long form of the orientation directive *)

\* the prompt contains --ar landscape or --ar portrait
HasLongForm(prompt) ==
    \E i \in 1..Len(prompt) - 2 :
        /\ prompt[i] \in ArTokens
        /\ prompt[i + 1] \in {Space, Wide}
        /\ prompt[i + 2] \in {"landscape", "portrait"}

\* what is left of a long form when only --ar l or --ar p is cut out of it
Leftovers == {"andscape", "ortrait"}

\* C25: with the flow provider, when the prompt contains the directive in
\* its long form (--ar landscape, --ar portrait), the prompt handed to the
\* provider contains no leftover characters of the directive.
C25_WholeDirectiveRemoved ==
    FlowCall /\ HasLongForm(core_args.prompt) =>
        Range(core_result.prompt) \cap Leftovers = {}

----------------------------------------------------------------------------
(* C26: success only with media *)

\* C26: an invocation that _generate_core reports as a success has a reply
\* chain, and a chain that names a file names the file the image was
\* written to, never an error message: every error outcome of the Gemini
\* handler ends with success false and no chain.
C26_SuccessOnlyWithMedia ==
    \A r \in Reqs :
        /\ req[r].success =>
              /\ req[r].chain # NoChain
              /\ req[r].chain.kind = "file" => req[r].chain.ref = ImagePath
        /\ ~req[r].success => req[r].chain = NoChain

----------------------------------------------------------------------------
(* C27: the strings of call_flow2api that are not a URL *)

Handled == call_args.fn = "call_flow2api" /\ call_result.done

\* how the error and diagnostic strings of call_flow2api begin
DiagnosticHeads ==
    {"Error:", "Error from API: ", "No URL found in response. Model Output: ",
     "API Error: ", "Empty response from Flow2API", "Exception: "}
IsDiagnostic(result) == result # <<>> /\ Head(result) \in DiagnosticHeads

IsHttp(result) == StartsWith(result, <<"http">>)
IsDataImage(result) == StartsWith(result, <<"data:", "image">>)

\* the caller can still succeed, or has succeeded, with what it was given
CanSucceed(f) ==
    \/ f.pc \in {"openai_download", "flow_download", "send"}
    \/ f.success
    \/ f.pc = "returned" /\ f.ret.source \in {<<"OpenAI API">>, <<"Flow2API">>}

\* the caller took the result for a failure: generate_video gives no media;
\* generate_image starts no download, keeps the message in flow_error and
\* returns an error, or, when no provider was named, turns to the official
\* endpoint
TakenForFailure(caller, f) ==
    IF caller = "video"
    THEN f.pc = "done" /\ ~f.success /\ f.chain = NoChain
    ELSE /\ f.downloads = 0
         /\ Truthy(f.flow_error)
         /\ f.wrote = NoWrite
         /\ IF caller = "<None>" THEN f.pc = "gemini_call"
            ELSE /\ f.pc = "returned"
                 /\ f.ret.source = None /\ f.ret.url = None
                 /\ StartsWith(f.ret.path, <<"Error:">>)

\* C27: every error or diagnostic string of call_flow2api is taken for a
\* failure by generate_image and by generate_video, none of them begins with
\* "http" or "data:image", and a caller succeeds, or goes on to download,
\* only with a result that begins with "http" or, for images, "data:image".
C27_OnlyUrlsSucceed ==
    Handled =>
        /\ IsDiagnostic(call_result.result) =>
              /\ ~IsHttp(call_result.result) /\ ~IsDataImage(call_result.result)
              /\ TakenForFailure(call_args.caller, call_result.f)
        /\ CanSucceed(call_result.f) =>
              \/ IsHttp(call_result.result)
              \/ call_args.caller # "video" /\ IsDataImage(call_result.result)
        /\ ~CanSucceed(call_result.f) /\ call_result.f.downloads = 0 =>
              TakenForFailure(call_args.caller, call_result.f)

\* C27 witness: the no-URL diagnostic, given to generate_image for the
\* OpenAI-compatible provider, came back as its error
C27_Witness ==
    /\ Handled
    /\ call_args.caller = "openai"
    /\ call_result.result = <<"No URL found in response. Model Output: ", "a cat">>
    /\ call_result.f.ret.path =
          <<"Error:", " OpenAI API failed (", "OpenAI API", " error: ",
            "No URL found in response. Model Output: ", "a cat", ")">>

----------------------------------------------------------------------------
(* C28: the temporary payload file *)

TempReturned == call_args.fn = "temp_file" /\ call_result.done

\* C28 as stated: when call_flow2api returns after the temporary file was
\* created, the file has been removed.
C28_NoTempFileLeft ==
    TempReturned /\ call_result.created => call_result.temp_file = "absent"

\* C28 amended: the file exists while curl runs; on every return after the
\* file was created the finally clause has tried to remove it, and the file
\* is still there exactly when os.remove raised, which is swallowed; what
\* the call returns does not depend on the removal.
C28_RemovedUnlessRemoveFails ==
    /\ call_args.fn = "temp_file" /\ call_result # NoCallResult /\ ~call_result.done =>
          call_result.temp_file = "present"
    /\ TempReturned =>
          /\ call_result.temp_file = "present" <=>
                call_result.created /\ call_args.remove = "raises"
          /\ call_result.ret = call_flow2api(call_args.response)

\* C28 witness: curl ended with a non-zero exit code and the file is gone
C28_Witness ==
    /\ TempReturned
    /\ call_result.created
    /\ call_args.response = CurlFailed
    /\ call_result.temp_file = "absent"
    /\ call_result.ret = <<"Error:", " Curl failed - ", "<stderr>">>

----------------------------------------------------------------------------
(* C29: token selection under interleaving *)

CursorCalls == call_args.fn = "_get_next_api"

\* the callers that have called _get_next_api for the provider
CalledFor(api_type) == {c \in CursorCallers : call_result.got[c].api_type = api_type}

\* C29: in any order of the calls of _get_next_api, for a provider with a
\* non-empty token list the k calls made so far have been handed the cursor
\* positions 0..k-1, each exactly once, each caller holds the token at its
\* position modulo the length of the list, and the cursor stands at k.
C29_PositionsOnce ==
    CursorCalls =>
        \A api_type \in {"openai", "flow"} :
            tokens_of(self, api_type) # <<>> =>
                LET cs == CalledFor(api_type)
                    k == Cardinality(cs)
                    n == Len(tokens_of(self, api_type))
                IN /\ {call_result.got[c].position : c \in cs} = 0..k - 1
                   /\ \A c, d \in cs :
                         call_result.got[c].position = call_result.got[d].position => c = d
                   /\ \A c \in cs :
                         call_result.got[c].token =
                             tokens_of(self, api_type)[(call_result.got[c].position % n) + 1]
                   /\ cursor(self, api_type) = k

\* C29 witness: every caller has taken a Flow token, the last caller first,
\* and the cursor has wrapped around the list
C29_Witness ==
    /\ CursorCalls
    /\ call_result.done
    /\ Len(self.flow_api_tokens) = 2
    /\ CalledFor("flow") = CursorCallers
    /\ call_result.got[MaxCallers].position = 0
    /\ call_result.got[1].position = MaxCallers - 1
    /\ self.flow_idx = MaxCallers

----------------------------------------------------------------------------
(* C30: the video model of the two entry points *)

VideoChosen == call_args.fn = "video_model" /\ call_result.done

\* C30: both video entry points pass the image-to-video model to
\* generate_video exactly when they pass at least one image, and the
\* text-to-video model exactly when they pass none.
C30_SameModelChoice ==
    VideoChosen =>
        /\ call_result.model = "veo_3_1_i2v_s_fast_fl" <=>
              Len(call_result.input_images_b64) >= 1
        /\ call_result.model = "veo_3_1_t2v_fast" <=>
              Len(call_result.input_images_b64) = 0

====
